---- MODULE Spec2Model ----
(***************************************************************************)
(* The model orchestrator of omicidx-gh-etl                                *)
(* (src/omicidx_etl/transformations/warehouse.py): discovery of models,    *)
(* topological scheduling, execution against the analytical engine and the *)
(* provenance tables of the meta schema.                                   *)
(*                                                                         *)
(* Strings that the code splits or joins on "." are modelled as the        *)
(* sequence of their dot-free segments: "raw.a" is <<"raw", "a">>, the     *)
(* name "a" is <<"a">>.  Joining with "." is concatenation of the segment  *)
(* sequences and s.split('.')[-1] is the last segment.                     *)
(***************************************************************************)
EXTENDS Integers, Sequences, FiniteSets, TLC

(***************************************************************************)
(* Bounds of the model.                                                    *)
(***************************************************************************)
NumNames == 1
SchedMaxModels == 3
SchedMaxEdges == 3
MaxRequest == 2
RunMaxModels == 3
RunMaxEdges == 1
RerunMaxModels == 1
RerunMaxEdges == 2
MaxRuns == 1
MaxReruns == 2
MaxTime == 2
TicksPerSecond == 2
MaxRowCount == 1
ExecMaxModels == 1
ExecMaxEdges == 1
MaxBatch == 3

NamePool == <<"a", "b", "c", "d">>

\* for layer in ['raw', 'staging', 'mart']
Layers == <<"raw", "staging", "mart">>

Names == {<<NamePool[i]>> : i \in 1..NumNames}

\* ModelConfig.materialization default
DefaultMaterialization == "view"

Null == "NULL"

\* No path: None, or the empty string, which the code takes for None too.
NoPath == <<>>

\* rows_affected = None
NoRowCount == <<>>

\* rows_affected = result.fetchone()[0]
RowCount(n) == <<n>>

\* ExportConfig: enabled, and the path relative to the export directory
ExportConfig(enabled, path) == [enabled |-> enabled, path |-> path]

\* ExportConfig(): enabled = False, path = None
DefaultExport == ExportConfig(FALSE, NoPath)

\* A path given under export: in schema.yml.
CustomPath == <<"custom", "out", "parquet">>

ExportConfigs ==
    {DefaultExport, ExportConfig(TRUE, NoPath), ExportConfig(TRUE, CustomPath),
     ExportConfig(FALSE, CustomPath)}

ModelConfig(layer, name, depends_on, materialization, export) ==
    [layer |-> layer, name |-> name, depends_on |-> depends_on,
     materialization |-> materialization, export |-> export]

\* f"{self.layer}.{self.name}"
full_name(m) == <<m.layer>> \o m.name

\* self.export.enabled or self.materialization in ('export_table', 'export_view')
should_export(m) ==
    m.export.enabled \/ m.materialization \in {"export_table", "export_view"}

LayerIndex(l) == CHOOSE i \in 1..Len(Layers) : Layers[i] = l

FullNames == {<<Layers[i]>> \o n : i \in 1..Len(Layers), n \in Names}

\* A dependency string naming no model of any directory.
UndefinedModel == <<"ext", "t">>

DepNames == FullNames \cup {UndefinedModel}

Range(s) == {s[i] : i \in 1..Len(s)}

Perms(S) ==
    {p \in [1..Cardinality(S) -> S] : \A i, j \in 1..Cardinality(S) : p[i] = p[j] => i = j}

SeqsUpTo(S, k) == UNION {[1..j -> S] : j \in 0..k}

(***************************************************************************)
(* The directories discover_models can return: the layers are scanned in   *)
(* the order of Layers, the files of a layer in the order glob yields      *)
(* them, and two files of a layer never share a stem, so the full names    *)
(* are distinct.                                                           *)
(***************************************************************************)
RECURSIVE DependsOnLists(_, _)
DependsOnLists(n, k) ==
    IF n = 0 THEN {<<>>}
    ELSE UNION {{Append(rest, dl) : rest \in DependsOnLists(n - 1, k - Len(dl))} :
                    dl \in SeqsUpTo(DepNames, k)}

DiscoveryOrders(maxModels) ==
    {ids \in SeqsUpTo(Range(Layers) \X Names, maxModels) :
        /\ \A i, j \in 1..Len(ids) : ids[i] = ids[j] => i = j
        /\ \A i, j \in 1..Len(ids) :
              i < j => LayerIndex(ids[i][1]) <= LayerIndex(ids[j][1])}

discover_models(maxModels, maxEdges, materializations, exports) ==
    UNION {
      UNION {
        {[i \in 1..Len(ids) |->
             ModelConfig(ids[i][1], ids[i][2], deps[i], mats[i][1], mats[i][2])] :
           mats \in [1..Len(ids) -> materializations \X exports]} :
        deps \in DependsOnLists(Len(ids), maxEdges)} :
      ids \in DiscoveryOrders(maxModels)}

\* The orders in which the sets set(model.depends_on) can be iterated.
RECURSIVE SetOrders(_)
SetOrders(models) ==
    IF models = <<>> THEN {<<>>}
    ELSE LET n == Len(models)
         IN  UNION {{Append(rest, p) : rest \in SetOrders(SubSeq(models, 1, n - 1))} :
                        p \in Perms(Range(models[n].depends_on))}

(***************************************************************************)
(* topological_sort                                                        *)
(***************************************************************************)
LastIndex(models, name) ==
    CHOOSE i \in 1..Len(models) :
        /\ full_name(models[i]) = name
        /\ \A j \in 1..Len(models) : full_name(models[j]) = name => j <= i

\* graph = {model.full_name: model for model in models}
graph(models) ==
    [name \in {full_name(models[i]) : i \in 1..Len(models)} |->
        models[LastIndex(models, name)]]

\* dependencies = {model.full_name: set(model.depends_on) for model in models},
\* each set given as the sequence in which it is iterated
dependencies(models, ord) ==
    [name \in {full_name(models[i]) : i \in 1..Len(models)} |->
        ord[LastIndex(models, name)]]

SortState0 ==
    [visited |-> {}, temp_visited |-> {}, result |-> <<>>,
     raised |-> FALSE, involving |-> <<>>]

RECURSIVE visit(_, _, _, _)
RECURSIVE visit_deps(_, _, _, _, _)

\* A depth-first search with two colours only: a node met again while it is
\* in progress is taken for a finished one.
visit_two_colours(name, st, models, ord) ==
    IF st.raised THEN st
    ELSE IF name \in st.temp_visited \/ name \in st.visited THEN st
    ELSE LET entered == [st EXCEPT !.temp_visited = @ \cup {name}]
             after == visit_deps(name, 1, entered, models, ord)
         IN  IF after.raised THEN after
             ELSE [after EXCEPT !.temp_visited = @ \ {name},
                                !.visited = @ \cup {name},
                                !.result = IF name \in DOMAIN graph(models)
                                           THEN Append(@, graph(models)[name])
                                           ELSE @]

\* A depth-first search that emits a node before its dependencies.
visit_preorder(name, st, models, ord) ==
    IF st.raised THEN st
    ELSE IF name \in st.temp_visited
         THEN [st EXCEPT !.raised = TRUE, !.involving = name]
    ELSE IF name \in st.visited THEN st
    ELSE LET entered == [st EXCEPT !.temp_visited = @ \cup {name},
                                   !.result = IF name \in DOMAIN graph(models)
                                              THEN Append(@, graph(models)[name])
                                              ELSE @]
             after == visit_deps(name, 1, entered, models, ord)
         IN  IF after.raised THEN after
             ELSE [after EXCEPT !.temp_visited = @ \ {name},
                                !.visited = @ \cup {name}]

visit(name, st, models, ord) ==
    IF st.raised THEN st
    ELSE IF name \in st.temp_visited
         THEN [st EXCEPT !.raised = TRUE, !.involving = name]
    ELSE IF name \in st.visited THEN st
    ELSE LET entered == [st EXCEPT !.temp_visited = @ \cup {name}]
             after == visit_deps(name, 1, entered, models, ord)
         IN  IF after.raised THEN after
             ELSE [after EXCEPT !.temp_visited = @ \ {name},
                                !.visited = @ \cup {name},
                                !.result = IF name \in DOMAIN graph(models)
                                           THEN Append(@, graph(models)[name])
                                           ELSE @]

\* for dep in dependencies.get(name, []): if dep in graph: visit(dep)
visit_deps(name, k, st, models, ord) ==
    LET deps == IF name \in DOMAIN dependencies(models, ord)
                THEN dependencies(models, ord)[name] ELSE <<>>
    IN  IF st.raised \/ k > Len(deps) THEN st
        ELSE visit_deps(name, k + 1,
                        IF deps[k] \in DOMAIN graph(models)
                        THEN visit(deps[k], st, models, ord)
                        ELSE st,
                        models, ord)

\* The loop over the models taken from the last discovered to the first.
RECURSIVE sort_loop_reversed(_, _, _, _)
sort_loop_reversed(i, st, models, ord) ==
    IF st.raised \/ i > Len(models) THEN st
    ELSE LET m == models[Len(models) + 1 - i]
         IN  sort_loop_reversed(i + 1,
                                IF full_name(m) \notin st.visited
                                THEN visit(full_name(m), st, models, ord)
                                ELSE st,
                                models, ord)

\* for model in models: if model.full_name not in visited: visit(model.full_name)
RECURSIVE sort_loop(_, _, _, _)
sort_loop(i, st, models, ord) ==
    IF st.raised \/ i > Len(models) THEN st
    ELSE sort_loop(i + 1,
                   IF full_name(models[i]) \notin st.visited
                   THEN visit(full_name(models[i]), st, models, ord)
                   ELSE st,
                   models, ord)

\* The outcome of a call: the returned list, or the ValueError raised.
topological_sort(models, ord) ==
    LET st == sort_loop(1, SortState0, models, ord)
    IN  IF st.raised
        THEN [outcome |-> "ValueError", involving |-> st.involving]
        ELSE [outcome |-> "return", value |-> st.result]

\* A filter that matches the full name only.
filter_full_name_only(all_models, request) ==
    IF request = {} THEN all_models
    ELSE SelectSeq(all_models, LAMBDA m : full_name(m) \in request)

\* all_models = [m for m in all_models if m.name in model_set or m.full_name in model_set]
filter_models(all_models, request) ==
    IF request = {} THEN all_models
    ELSE SelectSeq(all_models,
                   LAMBDA m : m.name \in request \/ full_name(m) \in request)

\* The iteration orders of the models that pass the filter.
SelectedOrders(all_models, ord, request) ==
    LET keep == {i \in 1..Len(all_models) :
                    \/ request = {}
                    \/ all_models[i].name \in request
                    \/ full_name(all_models[i]) \in request}
        RECURSIVE pick(_)
        pick(i) == IF i > Len(all_models) THEN <<>>
                   ELSE IF i \in keep THEN <<ord[i]>> \o pick(i + 1)
                   ELSE pick(i + 1)
    IN  pick(1)

RequestNames == Names \cup FullNames

Requests == {r \in SUBSET RequestNames : Cardinality(r) <= MaxRequest}

(***************************************************************************)
(* State.                                                                  *)
(***************************************************************************)
VARIABLES
    in_models,    \* scheduling: the discovered list of models
    in_order,     \* scheduling: the iteration order of each depends_on set
    sched,        \* scheduling: the last call and its outcome
    pc,           \* where run_warehouse stands
    run,          \* the locals of the current (or last) run_warehouse call
    exec,         \* the locals of the current execute_model call
    db,           \* the warehouse database file (config.db_path)
    export_dir,   \* the files under config.export_dir
    now,          \* the clock, in ticks
    runs_started, \* how many times run_warehouse has been called
    cli,          \* what the command that called run_warehouse printed and its exit status
    upload,       \* the locals of a batch upload and the objects in the bucket
    directory,    \* the models directory: a layer folder, its SQL files, its schema.yml
    discovery,    \* what discover_models returned for the directory
    deploy,       \* the export files, the catalogs and the remote-view database
    norm,         \* a call of normalize_record: its arguments and what it returned
    sra_flow,     \* the SRA flow: the saved state, the state at hand, the URLs parsed
    extraction    \* SRA extraction: the output directory and what each run did

sched_vars == <<in_models, in_order, sched>>

run_vars == <<pc, run, exec, db, export_dir, now, runs_started>>

vars ==
    <<in_models, in_order, sched, pc, run, exec, db, export_dir, now, runs_started,
      cli, upload, directory, discovery, deploy, norm, sra_flow, extraction>>

deploy_vars == <<directory, discovery, deploy>>

sra_vars == <<norm, sra_flow, extraction>>

(***************************************************************************)
(* The warehouse database and the provenance tables of the meta schema.    *)
(***************************************************************************)
\* schemas = ['raw', 'staging', 'mart', 'meta']
Schemas == {"raw", "staging", "mart", "meta"}

MetaTables == {"model_runs", "model_lineage", "model_docs"}

\* No file at config.db_path yet.
NoDatabase ==
    [file |-> FALSE, schemas |-> {}, meta_tables |-> {},
     model_runs |-> <<>>, model_lineage |-> <<>>, model_docs |-> <<>>,
     relations |-> <<>>]

Ddl == {"CREATE SCHEMA", "CREATE TABLE meta", "CREATE VIEW", "CREATE TABLE AS"}

\* duckdb.connect creates the file; _init_schemas and _init_metadata_tables
\* create what does not exist yet.
connect_and_init(d) ==
    [d EXCEPT !.file = TRUE,
              !.schemas = @ \cup Schemas,
              !.meta_tables = @ \cup MetaTables]

\* datetime.now().strftime('%Y%m%d_%H%M%S'): the time cut to the second
strftime(t) == t \div TicksPerSecond

\* run_id = f"{model.full_name}_{datetime.now().strftime('%Y%m%d_%H%M%S')}"
make_run_id(model, t) == [model |-> full_name(model), stamp |-> strftime(t)]

\* INSERT INTO meta.model_runs (...) VALUES (?, ?, ?, ?, 'running', ?):
\* run_id is the primary key.
insert_run(d, run_id, model, started_at) ==
    IF run_id \in DOMAIN d.model_runs
    THEN [raised |-> TRUE, db |-> d]
    ELSE [raised |-> FALSE,
          db |-> [d EXCEPT !.model_runs = @ @@ (run_id :>
                     [model_name |-> model.name, layer |-> model.layer,
                      started_at |-> started_at, completed_at |-> Null,
                      status |-> "running", error_message |-> Null,
                      rows_affected |-> NoRowCount])]]

\* An update to success that leaves the row count of the row as it is.
update_success_without_count(d, run_id, completed_at, rows_affected) ==
    IF run_id \in DOMAIN d.model_runs
    THEN [d EXCEPT !.model_runs[run_id].completed_at = completed_at,
                   !.model_runs[run_id].status = "success"]
    ELSE d

\* UPDATE meta.model_runs SET completed_at = ?, status = 'success',
\* rows_affected = ? ... WHERE run_id = ?
update_success(d, run_id, completed_at, rows_affected) ==
    IF run_id \in DOMAIN d.model_runs
    THEN [d EXCEPT !.model_runs[run_id].completed_at = completed_at,
                   !.model_runs[run_id].status = "success",
                   !.model_runs[run_id].rows_affected = rows_affected]
    ELSE d

\* An except clause that returns the error record without updating the row.
update_error_skipped(d, run_id, completed_at, error) == d

\* UPDATE meta.model_runs SET completed_at = CURRENT_TIMESTAMP,
\* status = 'error', error_message = ? WHERE run_id = ?
update_error(d, run_id, completed_at, error) ==
    IF run_id \in DOMAIN d.model_runs
    THEN [d EXCEPT !.model_runs[run_id].completed_at = completed_at,
                   !.model_runs[run_id].status = "error",
                   !.model_runs[run_id].error_message = error]
    ELSE d

\* dep.split('.')[-1]
last_segment(dep) == <<dep[Len(dep)]>>

\* The rows update_metadata inserts into meta.model_lineage, in order.
RECURSIVE lineage_rows(_)
lineage_rows(models) ==
    IF models = <<>> THEN <<>>
    ELSE LET model == Head(models)
         IN  [k \in 1..Len(model.depends_on) |->
                 [model_name |-> model.name,
                  depends_on_model |-> last_segment(model.depends_on[k]),
                  layer |-> model.layer]]
             \o lineage_rows(Tail(models))

\* INSERT INTO meta.model_lineage, row after row; the primary key is
\* (model_name, depends_on_model) and a statement that fails leaves the rows
\* of the statements before it.
RECURSIVE insert_lineage(_, _)
insert_lineage(lineage, rows) ==
    IF rows = <<>> THEN [raised |-> FALSE, lineage |-> lineage]
    ELSE LET key == <<Head(rows).model_name, Head(rows).depends_on_model>>
         IN  IF key \in DOMAIN lineage
             THEN [raised |-> TRUE, lineage |-> lineage]
             ELSE insert_lineage(lineage @@ (key :> Head(rows).layer), Tail(rows))

\* INSERT OR REPLACE INTO meta.model_docs, keyed by model_name
RECURSIVE upsert_docs(_, _)
upsert_docs(docs, models) ==
    IF models = <<>> THEN docs
    ELSE LET model == Head(models)
             others == [n \in DOMAIN docs \ {model.name} |-> docs[n]]
         IN  upsert_docs(others @@ (model.name :> model.layer), Tail(models))

\* An update of the metadata that inserts the edges without deleting the
\* rows of the table first.
update_metadata_without_delete(d, models) ==
    LET ins == insert_lineage(d.model_lineage, lineage_rows(models))
    IN  IF ins.raised
        THEN [raised |-> TRUE, db |-> [d EXCEPT !.model_lineage = ins.lineage]]
        ELSE [raised |-> FALSE,
              db |-> [d EXCEPT !.model_lineage = ins.lineage,
                               !.model_docs = upsert_docs(@, models)]]

\* update_metadata(conn, models)
update_metadata(d, models) ==
    LET ins == insert_lineage(<<>>, lineage_rows(models))
    IN  IF ins.raised
        THEN [raised |-> TRUE, db |-> [d EXCEPT !.model_lineage = ins.lineage]]
        ELSE [raised |-> FALSE,
              db |-> [d EXCEPT !.model_lineage = ins.lineage,
                               !.model_docs = upsert_docs(@, models)]]

\* A path that is always layer/name.parquet, whatever export.path says.
export_path_default_only(model) == <<model.layer>> \o model.name \o <<"parquet">>

\* _export_model, lines 310-315: export.path under the export directory if
\* it is given, layer/name.parquet otherwise
export_path(model) ==
    IF model.export.path # NoPath
    THEN model.export.path
    ELSE <<model.layer>> \o model.name \o <<"parquet">>

Materializations ==
    {"view", "table", "export_view", "export_table", "external_table"}

\* A materialization execute_model does not know.
Unsupported == "incremental"

\* The loop of run_warehouse never stops before the end of the schedule.
never_stop(fail_fast, status) == FALSE

\* if fail_fast and result['status'] == 'error': break
stop_on_error(fail_fast, status) == fail_fast /\ status = "error"

\* The cycle error is swallowed and the run goes on.
after_sort_swallowed(ret) == "open"

\* topological_sort is called before the connection is opened: its
\* ValueError ends run_warehouse there.
after_sort(ret) == IF ret.outcome = "ValueError" THEN "raised" ELSE "open"

NoExec == [model |-> Null]

\* No command has printed or exited.
NoCli == [command |-> Null]

\* No batch upload is under way.
NoUpload == [pc |-> "idle"]

NoDirectory == [layer |-> Null]

NoDiscovery == [pc |-> "idle"]

NoDeploy == [pc |-> "idle"]

NoCall == [pc |-> "idle"]

(***************************************************************************)
(* run_warehouse, step by step.                                            *)
(***************************************************************************)
RunInit ==
    /\ pc = "idle"
    /\ run = [outcome |-> "none"]
    /\ exec = NoExec
    /\ db = NoDatabase
    /\ export_dir = {}
    /\ now = 0
    /\ runs_started = 0
    /\ cli = NoCli
    /\ upload = NoUpload

\* Nothing of the models directory is read and nothing is deployed.
DeployIdle ==
    /\ directory = NoDirectory
    /\ discovery = NoDiscovery
    /\ deploy = NoDeploy

\* No SRA function has been called.
SraIdle ==
    /\ norm = NoCall
    /\ sra_flow = NoCall
    /\ extraction = NoCall

\* run_warehouse, lines 524-535: what discovery, the filter and the sort give
\* for the directories, the requests and the iteration orders of the model.
Schedules(directories) ==
    UNION {UNION {{topological_sort(filter_models(all_models, request), ord) :
                      ord \in SetOrders(filter_models(all_models, request))} :
                  request \in Requests} :
           all_models \in directories}

\* run_warehouse, lines 522-539: discover, filter, sort.
StartRun(schedules, max_runs) ==
    /\ pc \in {"idle", "done", "raised"}
    /\ runs_started < max_runs
    /\ \E ret \in schedules, dry_run \in BOOLEAN, fail_fast \in BOOLEAN :
          /\ run' = [dry_run |-> dry_run, fail_fast |-> fail_fast,
                     sorted_models |-> IF ret.outcome = "return"
                                       THEN ret.value ELSE <<>>,
                     results |-> <<>>,
                     outcome |-> IF ret.outcome = "return"
                                 THEN "running" ELSE ret.outcome,
                     connected |-> FALSE,
                     issued |-> {},
                     db0 |-> db,
                     export_dir0 |-> export_dir]
          /\ pc' = after_sort(ret)
    /\ runs_started' = runs_started + 1
    /\ exec' = NoExec
    /\ cli' = NoCli
    /\ UNCHANGED <<db, export_dir, now, sched_vars, upload, deploy_vars, sra_vars>>

\* with WarehouseConnection(config) as conn: __enter__
OpenConnection ==
    /\ pc = "open"
    /\ db' = connect_and_init(db)
    /\ run' = [run EXCEPT !.connected = TRUE,
                          !.issued = @ \cup {"CREATE SCHEMA", "CREATE TABLE meta"}]
    /\ pc' = IF run.dry_run THEN "loop" ELSE "metadata"
    /\ UNCHANGED <<exec, export_dir, now, runs_started, sched_vars, cli, upload, deploy_vars, sra_vars>>

\* if not dry_run: update_metadata(conn, sorted_models)
UpdateMetadata ==
    /\ pc = "metadata"
    /\ LET upd == update_metadata(db, run.sorted_models)
       IN  /\ db' = upd.db
           /\ run' = [run EXCEPT
                 !.issued = @ \cup {"DELETE model_lineage"}
                    \cup (IF lineage_rows(run.sorted_models) # <<>>
                          THEN {"INSERT model_lineage"} ELSE {})
                    \cup (IF ~upd.raised /\ run.sorted_models # <<>>
                          THEN {"INSERT model_docs"} ELSE {}),
                 !.outcome = IF upd.raised THEN "ConstraintException" ELSE @]
           /\ pc' = IF upd.raised THEN "raised" ELSE "loop"
    /\ UNCHANGED <<exec, export_dir, now, runs_started, sched_vars, cli, upload, deploy_vars, sra_vars>>

\* results.append(result) and the fail-fast test of the loop
Returned(result, statements) ==
    /\ run' = [run EXCEPT !.results = Append(@, result),
                          !.issued = @ \cup statements]
    /\ pc' = IF stop_on_error(run.fail_fast, result.status)
             THEN "finish" ELSE "loop"
    /\ exec' = NoExec

\* execute_model, lines 360-384: the run id, the SQL file, the running row
ExecuteModelBegin ==
    /\ pc = "loop"
    /\ Len(run.results) < Len(run.sorted_models)
    /\ LET model == run.sorted_models[Len(run.results) + 1]
           run_id == make_run_id(model, now)
       IN  \E readable \in BOOLEAN :
             IF ~readable
             THEN /\ exec' = [model |-> model, run_id |-> run_id,
                              error |-> "IOError", issued |-> {}]
                  /\ pc' = "except"
                  /\ UNCHANGED <<run, db>>
             ELSE IF run.dry_run
             THEN /\ Returned([run_id |-> run_id,
                                model_name |-> full_name(model),
                                status |-> "dry_run"], {})
                  /\ UNCHANGED db
             ELSE LET ins == insert_run(db, run_id, model, now)
                  IN  /\ db' = ins.db
                      /\ exec' = [model |-> model, run_id |-> run_id,
                                  started_at |-> now,
                                  error |-> IF ins.raised
                                            THEN "ConstraintException" ELSE Null,
                                  issued |-> {"INSERT model_runs"},
                                  statements |-> <<>>,
                                  reported |-> 0,
                                  rows_affected |-> NoRowCount,
                                  export_path |-> NoPath]
                      /\ pc' = IF ins.raised THEN "except" ELSE "materialize"
                      /\ UNCHANGED run
    /\ UNCHANGED <<export_dir, now, runs_started, sched_vars, cli, upload, deploy_vars, sra_vars>>

\* What the engine answers to the statements of one execute_model call.
EngineAnswers ==
    [create_ok : BOOLEAN, copy_ok : BOOLEAN, count : 0..MaxRowCount]

\* _export_model(conn, model, config)
export_model(model, files, engine) ==
    IF ~should_export(model)
    THEN [raised |-> FALSE, path |-> NoPath, files |-> files, statements |-> <<>>]
    ELSE IF engine.copy_ok
    THEN [raised |-> FALSE, path |-> export_path(model),
          files |-> files \cup {export_path(model)}, statements |-> <<"COPY">>]
    ELSE [raised |-> TRUE, path |-> NoPath, files |-> files, statements |-> <<"COPY">>]

\* CREATE OR REPLACE VIEW / TABLE layer.name AS sql
create_or_replace(d, model, kind) ==
    LET rel == <<model.layer, model.name>>
    IN  [d EXCEPT !.relations = [r \in DOMAIN @ \ {rel} |-> @[r]] @@ (rel :> kind)]

\* execute_model, lines 386-419: the statements of the materialization, in
\* the order in which they are issued
materialize(model, d, files, engine) ==
    LET failed(error, stmts, d1) ==
            [error |-> error, db |-> d1, files |-> files, statements |-> stmts,
             rows_affected |-> NoRowCount, export_path |-> NoPath]
    IN  IF model.materialization = "view"
        THEN IF engine.create_ok
             THEN [error |-> Null, db |-> create_or_replace(d, model, "view"),
                   files |-> files, statements |-> <<"CREATE VIEW">>,
                   rows_affected |-> NoRowCount, export_path |-> NoPath]
             ELSE failed("EngineError", <<"CREATE VIEW">>, d)
        ELSE IF model.materialization = "table"
        THEN IF engine.create_ok
             THEN [error |-> Null, db |-> create_or_replace(d, model, "table"),
                   files |-> files, statements |-> <<"CREATE TABLE AS">>,
                   rows_affected |-> RowCount(engine.count), export_path |-> NoPath]
             ELSE failed("EngineError", <<"CREATE TABLE AS">>, d)
        ELSE IF model.materialization = "export_view"
        THEN IF engine.create_ok
             THEN LET exp == export_model(model, files, engine)
                      d1 == create_or_replace(d, model, "view")
                  IN  IF exp.raised
                      THEN failed("ExportError", <<"CREATE VIEW">> \o exp.statements, d1)
                      ELSE [error |-> Null, db |-> d1, files |-> exp.files,
                            statements |-> <<"CREATE VIEW">> \o exp.statements,
                            rows_affected |-> NoRowCount, export_path |-> exp.path]
             ELSE failed("EngineError", <<"CREATE VIEW">>, d)
        ELSE IF model.materialization = "export_table"
        THEN IF engine.create_ok
             THEN LET exp == export_model(model, files, engine)
                      d1 == create_or_replace(d, model, "table")
                  IN  IF exp.raised
                      THEN failed("ExportError", <<"CREATE TABLE AS">> \o exp.statements, d1)
                      ELSE [error |-> Null, db |-> d1, files |-> exp.files,
                            statements |-> <<"CREATE TABLE AS">> \o exp.statements,
                            rows_affected |-> RowCount(engine.count), export_path |-> exp.path]
             ELSE failed("EngineError", <<"CREATE TABLE AS">>, d)
        ELSE IF model.materialization = "external_table"
        THEN IF engine.create_ok
             THEN [error |-> Null, db |-> d, files |-> files, statements |-> <<"SQL">>,
                   rows_affected |-> NoRowCount, export_path |-> NoPath]
             ELSE failed("EngineError", <<"SQL">>, d)
        ELSE failed("ValueError", <<>>, d)

\* execute_model, lines 386-419
ExecuteModelMaterialize ==
    /\ pc = "materialize"
    /\ \E engine \in EngineAnswers :
          LET m == materialize(exec.model, db, export_dir, engine)
          IN  /\ db' = m.db
              /\ export_dir' = m.files
              /\ exec' = [exec EXCEPT !.error = m.error,
                                      !.issued = @ \cup Range(m.statements),
                                      !.statements = m.statements,
                                      !.reported = engine.count,
                                      !.rows_affected = m.rows_affected,
                                      !.export_path = m.export_path]
              /\ pc' = IF m.error = Null THEN "record_success" ELSE "except"
    /\ UNCHANGED <<run, now, runs_started, sched_vars, cli, upload, deploy_vars, sra_vars>>

\* execute_model, lines 421-446: the row is brought to success
ExecuteModelSuccess ==
    /\ pc = "record_success"
    /\ db' = update_success(db, exec.run_id, now, exec.rows_affected)
    /\ Returned([run_id |-> exec.run_id,
                 model_name |-> full_name(exec.model),
                 status |-> "success",
                 rows_affected |-> exec.rows_affected,
                 export_path |-> exec.export_path],
                exec.issued \cup {"UPDATE model_runs"})
    /\ UNCHANGED <<export_dir, now, runs_started, sched_vars, cli, upload, deploy_vars, sra_vars>>

\* execute_model, lines 448-465: the except clause
ExecuteModelExcept ==
    /\ pc = "except"
    /\ db' = update_error(db, exec.run_id, now, exec.error)
    /\ Returned([run_id |-> exec.run_id,
                 model_name |-> full_name(exec.model),
                 status |-> "error",
                 error |-> exec.error],
                exec.issued \cup {"UPDATE model_runs"})
    /\ UNCHANGED <<export_dir, now, runs_started, sched_vars, cli, upload, deploy_vars, sra_vars>>

\* The end of the with block (__exit__), the summary and the return.
Finish ==
    /\ \/ pc = "finish"
       \/ pc = "loop" /\ Len(run.results) = Len(run.sorted_models)
    /\ run' = [run EXCEPT !.outcome = "return", !.connected = FALSE]
    /\ pc' = "done"
    /\ UNCHANGED <<exec, db, export_dir, now, runs_started, sched_vars, cli, upload, deploy_vars, sra_vars>>

\* The exit status that is always 0.
exit_status_always_zero(errors) == 0

\* warehouse run: if errors > 0: sys.exit(1)
exit_status(errors) == IF errors > 0 THEN 1 ELSE 0

\* sum(1 for r in results if r['status'] == status)
count_status(results, status) ==
    Cardinality({k \in 1..Len(results) : results[k].status = status})

\* The run command (run_warehouse without dry_run) after run_warehouse has
\* returned: the summary and the exit; or after it has raised: the
\* exception leaves the command, nothing is echoed, the status is 1.
run_command_exit ==
    /\ cli = NoCli
    /\ pc \in {"done", "raised"}
    /\ ~run.dry_run
    /\ cli' = IF pc = "done"
              THEN [command |-> "run",
                    echoed |-> [success |-> count_status(run.results, "success"),
                                errors |-> count_status(run.results, "error")],
                    exit_code |-> exit_status(count_status(run.results, "error"))]
              ELSE [command |-> "run", echoed |-> Null, exit_code |-> 1]
    /\ UNCHANGED <<pc, run, exec, db, export_dir, now, runs_started, sched_vars, upload, deploy_vars, sra_vars>>

\* Time passes.
Tick ==
    /\ now < MaxTime
    /\ now' = now + 1
    /\ UNCHANGED <<pc, run, exec, db, export_dir, runs_started, sched_vars, cli, upload, deploy_vars, sra_vars>>

RunMaterializations == {"view", "export_table", Unsupported}

RunDirectories ==
    discover_models(RunMaxModels, RunMaxEdges, RunMaterializations, {DefaultExport})

RunSchedules == Schedules(RunDirectories)

Init ==
    /\ RunInit
    /\ DeployIdle
    /\ SraIdle
    /\ in_models = <<>>
    /\ in_order = <<>>
    /\ sched = [call |-> "none"]

Next ==
    \/ StartRun(RunSchedules, MaxRuns)
    \/ OpenConnection
    \/ UpdateMetadata
    \/ ExecuteModelBegin
    \/ ExecuteModelMaterialize
    \/ ExecuteModelSuccess
    \/ ExecuteModelExcept
    \/ Finish
    \/ run_command_exit
    \/ Tick

Spec == Init /\ [][Next]_vars

RerunDirectories ==
    discover_models(RerunMaxModels, RerunMaxEdges, {DefaultMaterialization}, {DefaultExport})

RerunSchedules == Schedules(RerunDirectories)

NextRerun ==
    \/ StartRun(RerunSchedules, MaxReruns)
    \/ OpenConnection
    \/ UpdateMetadata
    \/ ExecuteModelBegin
    \/ ExecuteModelMaterialize
    \/ ExecuteModelSuccess
    \/ ExecuteModelExcept
    \/ Finish
    \/ run_command_exit
    \/ Tick

SpecRerun == Init /\ [][NextRerun]_vars

\* One run of a single model, of every materialization and export setting.
ExecDirectories ==
    discover_models(ExecMaxModels, ExecMaxEdges,
                    Materializations \cup {Unsupported}, ExportConfigs)

ExecSchedules == Schedules(ExecDirectories)

NextExec ==
    \/ StartRun(ExecSchedules, MaxRuns)
    \/ OpenConnection
    \/ UpdateMetadata
    \/ ExecuteModelBegin
    \/ ExecuteModelMaterialize
    \/ ExecuteModelSuccess
    \/ ExecuteModelExcept
    \/ Finish
    \/ run_command_exit
    \/ Tick

SpecExec == Init /\ [][NextExec]_vars

(***************************************************************************)
(* Batch uploads (src/omicidx_etl/transformations/deploy.py and the        *)
(* deploy upload command of src/omicidx_etl/warehouse_cli.py).             *)
(***************************************************************************)
\* Files under the export directory, as paths relative to it.
LocalFiles ==
    {<<"raw", "a", "parquet">>, <<"mart", "a", "parquet">>, <<"catalog", "json">>}

\* The lists of files a batch is made of: glob yields each file once.
Batches ==
    {b \in SeqsUpTo(LocalFiles, MaxBatch) :
        \A i, j \in 1..Len(b) : b[i] = b[j] => i = j}

\* What one call of upload_to_r2 finds: the file, the upload tools, and
\* whether the tool that is run ends with status 0.
UploadEnvironments ==
    [exists : BOOLEAN, rclone : BOOLEAN, aws : BOOLEAN, tool_ok : BOOLEAN]

\* upload_to_r2(local_path, deployment_config, remote_path): True if the
\* upload succeeded, False otherwise
upload_to_r2(bucket_name, env) ==
    IF ~bucket_name THEN FALSE
    ELSE IF ~env.exists THEN FALSE
    ELSE IF env.rclone THEN env.tool_ok
    ELSE IF env.aws THEN env.tool_ok
    ELSE FALSE

\* remote_path = f"{remote_prefix}/{relative_path}" if remote_prefix
\*               else str(relative_path)
remote_path(remote_prefix, relative_path) == remote_prefix \o relative_path

\* A loop over the files that ends at the first failed upload.
upload_loop_stops_at_failure(i, success) == IF success THEN i + 1 ELSE 0

\* for file_path in files: the next iteration follows whatever the upload
\* returned (0 stands for leaving the loop)
upload_loop_next(i, success) == i + 1

\* One iteration of either loop: the call of upload_to_r2 and its effect on
\* the bucket.
upload_one(u, env) ==
    LET file == u.files[u.i]
        success == upload_to_r2(u.bucket_name, env)
        next == upload_loop_next(u.i, success)
    IN  [u EXCEPT !.attempts = Append(@, [file |-> file, success |-> success]),
                  !.bucket = IF success
                             THEN @ \cup {remote_path(u.remote_prefix, file)}
                             ELSE @,
                  !.i = IF next = 0 THEN Len(u.files) + 1 ELSE next]

\* upload_directory_to_r2, lines 351-361
UploadDirectoryBegin ==
    /\ upload.pc = "idle"
    /\ \E is_dir \in BOOLEAN, files \in Batches, bucket_name \in BOOLEAN,
          remote_prefix \in {<<>>, <<"data">>} :
          upload' = [pc |-> IF is_dir THEN "loop" ELSE "returned",
                     call |-> "upload_directory_to_r2",
                     is_dir |-> is_dir,
                     files |-> IF is_dir THEN files ELSE <<>>,
                     bucket_name |-> bucket_name,
                     remote_prefix |-> remote_prefix,
                     i |-> 1,
                     attempts |-> <<>>,
                     bucket |-> {},
                     results |-> <<>>,
                     success_count |-> 0,
                     error_count |-> 0,
                     exit_code |-> 0]
    /\ UNCHANGED <<sched_vars, run_vars, cli, deploy_vars, sra_vars>>

\* upload_directory_to_r2, lines 362-366: results[str(relative_path)] = success
UploadDirectoryFile ==
    /\ upload.pc = "loop"
    /\ upload.call = "upload_directory_to_r2"
    /\ upload.i <= Len(upload.files)
    /\ \E env \in UploadEnvironments :
          LET u == upload_one(upload, env)
              file == upload.files[upload.i]
          IN  upload' = [u EXCEPT !.results =
                            [f \in DOMAIN @ \ {file} |-> @[f]] @@
                            (file :> u.attempts[Len(u.attempts)].success)]
    /\ UNCHANGED <<sched_vars, run_vars, cli, deploy_vars, sra_vars>>

\* upload_directory_to_r2, lines 368-371: the number of successes of the
\* results is logged with the number of files, and the results are returned
UploadDirectoryReturn ==
    /\ upload.pc = "loop"
    /\ upload.call = "upload_directory_to_r2"
    /\ upload.i > Len(upload.files)
    /\ upload' = [upload EXCEPT
          !.pc = "returned",
          !.success_count = Cardinality({f \in DOMAIN upload.results : upload.results[f]}),
          !.error_count = Len(upload.files)
                            - Cardinality({f \in DOMAIN upload.results : upload.results[f]})]
    /\ UNCHANGED <<sched_vars, run_vars, cli, deploy_vars, sra_vars>>

\* deploy upload, lines 452-515: the files are collected; with --dry-run the
\* command returns after listing them
DeployUploadBegin ==
    /\ upload.pc = "idle"
    /\ \E files \in Batches \ {<<>>}, bucket_name \in BOOLEAN, dry_run \in BOOLEAN :
          upload' = [pc |-> IF dry_run THEN "returned" ELSE "loop",
                     call |-> "deploy_upload",
                     is_dir |-> TRUE,
                     files |-> IF dry_run THEN <<>> ELSE files,
                     bucket_name |-> bucket_name,
                     remote_prefix |-> <<>>,
                     i |-> 1,
                     attempts |-> <<>>,
                     bucket |-> {},
                     results |-> <<>>,
                     success_count |-> 0,
                     error_count |-> 0,
                     exit_code |-> 0]
    /\ UNCHANGED <<sched_vars, run_vars, cli, deploy_vars, sra_vars>>

\* deploy upload, lines 516-524: one file, counted as a success or an error
DeployUploadFile ==
    /\ upload.pc = "loop"
    /\ upload.call = "deploy_upload"
    /\ upload.i <= Len(upload.files)
    /\ \E env \in UploadEnvironments :
          LET u == upload_one(upload, env)
              success == u.attempts[Len(u.attempts)].success
          IN  upload' = [u EXCEPT
                 !.success_count = IF success THEN @ + 1 ELSE @,
                 !.error_count = IF success THEN @ ELSE @ + 1]
    /\ UNCHANGED <<sched_vars, run_vars, cli, deploy_vars, sra_vars>>

\* deploy upload, lines 526-534: the summary and the exit status
DeployUploadSummary ==
    /\ upload.pc = "loop"
    /\ upload.call = "deploy_upload"
    /\ upload.i > Len(upload.files)
    /\ upload' = [upload EXCEPT
          !.pc = "returned",
          !.exit_code = IF upload.error_count > 0 THEN 1 ELSE 0]
    /\ UNCHANGED <<sched_vars, run_vars, cli, deploy_vars, sra_vars>>

UploadNext ==
    \/ UploadDirectoryBegin
    \/ UploadDirectoryFile
    \/ UploadDirectoryReturn
    \/ DeployUploadBegin
    \/ DeployUploadFile
    \/ DeployUploadSummary

SpecUpload == Init /\ [][UploadNext]_vars

(***************************************************************************)
(* The scheduling functions applied to every discovered directory.         *)
(***************************************************************************)
SchedInit ==
    /\ in_models \in discover_models(SchedMaxModels, SchedMaxEdges,
                                     {DefaultMaterialization}, {DefaultExport})
    /\ in_order \in SetOrders(in_models)
    /\ sched = [call |-> "none"]
    /\ RunInit
    /\ DeployIdle
    /\ SraIdle

\* topological_sort(models)
SortAll ==
    /\ sched.call = "none"
    /\ sched' = [call |-> "topological_sort", request |-> {},
                 input |-> in_models,
                 ret |-> topological_sort(in_models, in_order)]
    /\ UNCHANGED <<in_models, in_order, run_vars, cli, upload, deploy_vars, sra_vars>>

\* run_warehouse, lines 528-536: filter to the requested models, then sort
SortSelected ==
    /\ sched.call = "none"
    /\ \E request \in Requests \ {{}} :
          sched' = [call |-> "select", request |-> request,
                    input |-> filter_models(in_models, request),
                    ret |-> topological_sort(filter_models(in_models, request),
                                             SelectedOrders(in_models, in_order, request))]
    /\ UNCHANGED <<in_models, in_order, run_vars, cli, upload, deploy_vars, sra_vars>>

SchedNext == SortAll \/ SortSelected

SpecSched == SchedInit /\ [][SchedNext]_vars

(***************************************************************************)
(* Properties of a run.                                                    *)
(***************************************************************************)
\* run_warehouse got past the sort and has not raised.
Executing == pc # "idle" /\ run.outcome \in {"running", "return"}

\* The rows of meta.model_runs inserted since the run started.
NewRunIds == DOMAIN db.model_runs \ DOMAIN run.db0.model_runs

ResultIds == {run.results[k].run_id : k \in 1..Len(run.results)}

\* C3: in a non-dry run with fail_fast the records are those of a prefix of
\* the schedule, all success but the last; once the last is an error with its
\* error text, nothing more is started and the rows inserted by the run are
\* those of the records.
C3_FailFastStopsAtError ==
    (Executing /\ ~run.dry_run /\ run.fail_fast) =>
        LET n == Len(run.results)
        IN  /\ n <= Len(run.sorted_models)
            /\ \A k \in 1..n :
                  /\ run.results[k].model_name = full_name(run.sorted_models[k])
                  /\ k < n => run.results[k].status = "success"
                  /\ run.results[k].status \in {"success", "error"}
            /\ (n > 0 /\ run.results[n].status = "error") =>
                  /\ run.results[n].error \notin {Null, ""}
                  /\ pc \in {"finish", "done"}
                  /\ exec = NoExec
                  /\ NewRunIds \subseteq ResultIds

\* Model 2 of 3 failed: one success record, one error record, no third.
C3_Witness ==
    /\ pc = "done"
    /\ ~run.dry_run
    /\ run.fail_fast
    /\ Len(run.sorted_models) = 3
    /\ Len(run.results) = 2
    /\ run.results[1].status = "success"
    /\ run.results[2].status = "error"
    /\ Cardinality(DOMAIN db.model_runs) = 2

\* C4: in a non-dry run every error record returned by execute_model has a
\* row in meta.model_runs under its run id, with status error and the error
\* text.
C4_ErrorsAreRecorded ==
    (Executing /\ ~run.dry_run) =>
        \A k \in 1..Len(run.results) :
            run.results[k].status = "error" =>
                /\ run.results[k].run_id \in DOMAIN db.model_runs
                /\ db.model_runs[run.results[k].run_id].status = "error"
                /\ db.model_runs[run.results[k].run_id].error_message =
                      run.results[k].error

\* C5: a row of meta.model_runs goes from running to success or to error
\* only, and a row that is success or error keeps its status, error text and
\* completion time.
C5_FinishedRowsNeverChange ==
    [][\A id \in DOMAIN db.model_runs :
          /\ id \in DOMAIN db'.model_runs
          /\ db.model_runs[id].status \in {"success", "error"} =>
                /\ db'.model_runs[id].status = db.model_runs[id].status
                /\ db'.model_runs[id].error_message = db.model_runs[id].error_message
                /\ db'.model_runs[id].completed_at = db.model_runs[id].completed_at
          /\ db.model_runs[id].status = "running" =>
                db'.model_runs[id].status \in {"running", "success", "error"}]_vars

\* C6: in a non-dry run no model is executed after a model it depends on has
\* ended in error.
C6_NoDependentAfterFailure ==
    (Executing /\ ~run.dry_run) =>
        \A j, k \in 1..Len(run.results) :
            (j < k /\ run.results[j].status = "error") =>
                run.results[j].model_name \notin Range(run.sorted_models[k].depends_on)

\* C7: a dry run issues no DDL, leaves the database and the export files as
\* they were, and gives every scheduled model a dry_run record.
C7_DryRunHasNoEffect ==
    (pc = "done" /\ run.dry_run) =>
        /\ run.issued \cap Ddl = {}
        /\ db = run.db0
        /\ export_dir = run.export_dir0
        /\ Len(run.results) = Len(run.sorted_models)
        /\ \A k \in 1..Len(run.results) : run.results[k].status = "dry_run"

\* C8: when the sort raises the cycle error, run_warehouse ends there: no
\* connection was opened, no statement issued, no model executed, and the
\* database and the export files are as they were.
C8_CycleAbortsBeforeAnyEffect ==
    (pc # "idle" /\ run.outcome = "ValueError") =>
        /\ pc = "raised"
        /\ ~run.connected
        /\ run.issued = {}
        /\ run.results = <<>>
        /\ exec = NoExec
        /\ db = run.db0
        /\ export_dir = run.export_dir0

\* A run on a warehouse that holds rows of an earlier run ended in the cycle
\* error.
C8_Witness ==
    /\ pc = "raised"
    /\ run.outcome = "ValueError"
    /\ runs_started = 2
    /\ db.model_runs # <<>>
    /\ db.model_lineage # <<>>

(***************************************************************************)
(* Properties of the scheduling functions.                                 *)
(***************************************************************************)
\* The models of the list that model i names in depends_on (resolved).
ResolvedDeps(models, i) ==
    {j \in 1..Len(models) : full_name(models[j]) \in Range(models[i].depends_on)}

RECURSIVE Closure(_, _, _)
Closure(models, S, n) ==
    IF n = 0 THEN S
    ELSE Closure(models, S \cup UNION {ResolvedDeps(models, i) : i \in S}, n - 1)

\* The models that model i depends on, directly or through other models.
TransitiveDeps(models, i) ==
    Closure(models, ResolvedDeps(models, i), Len(models))

Acyclic(models) == \A i \in 1..Len(models) : i \notin TransitiveDeps(models, i)

Positions(s, m) == {k \in 1..Len(s) : s[k] = m}

Before(s, a, b) == \E i, j \in 1..Len(s) : i < j /\ s[i] = a /\ s[j] = b

\* C1: on a list whose resolved dependencies are acyclic, topological_sort
\* returns every input model exactly once, each one later than all the models
\* it depends on.
C1_DependenciesFirst ==
    (sched.call # "none" /\ Acyclic(sched.input)) =>
        /\ sched.ret.outcome = "return"
        /\ Len(sched.ret.value) = Len(sched.input)
        /\ \A i \in 1..Len(sched.input) :
              /\ Cardinality(Positions(sched.ret.value, sched.input[i])) = 1
              /\ \A j \in ResolvedDeps(sched.input, i) :
                    Before(sched.ret.value, sched.input[j], sched.input[i])

\* Three models, each depending on the one discovered after it, are returned
\* in the reverse of the discovery order.
C1_Witness ==
    /\ sched.call = "topological_sort"
    /\ Len(sched.input) = 3
    /\ ResolvedDeps(sched.input, 1) = {2}
    /\ ResolvedDeps(sched.input, 2) = {3}
    /\ ResolvedDeps(sched.input, 3) = {}
    /\ sched.ret.outcome = "return"
    /\ sched.ret.value = <<sched.input[3], sched.input[2], sched.input[1]>>

\* C2: on a list whose resolved dependencies contain a cycle, a model that
\* depends on itself included, topological_sort raises and returns no list.
C2_CycleRaises ==
    (sched.call # "none" /\ ~Acyclic(sched.input)) =>
        sched.ret.outcome = "ValueError"

\* A cycle through two models, none depending on itself, has raised.
C2_Witness ==
    /\ sched.call = "topological_sort"
    /\ ~Acyclic(sched.input)
    /\ \A i \in 1..Len(sched.input) : i \notin ResolvedDeps(sched.input, i)
    /\ sched.ret.outcome = "ValueError"

\* C9: the models of a subset run are scheduled in the relative order they
\* have in the schedule of the whole directory.
C9_SubsetKeepsOrder ==
    LET full == topological_sort(in_models, in_order)
    IN  (/\ sched.call = "select"
         /\ sched.ret.outcome = "return"
         /\ full.outcome = "return") =>
            \A a, b \in Range(sched.ret.value) :
                Before(sched.ret.value, a, b) => Before(full.value, a, b)

\* C10 as stated: every model a selected model depends on, directly or
\* through other models of the directory, is scheduled before it.
C10_TransitiveDepsScheduled ==
    (sched.call = "select" /\ sched.ret.outcome = "return") =>
        \A i \in 1..Len(in_models) :
            in_models[i] \in Range(sched.ret.value) =>
                \A j \in TransitiveDeps(in_models, i) :
                    Before(sched.ret.value, in_models[j], in_models[i])

\* C10 amended: a subset run schedules exactly the models whose name or full
\* name is requested, each once, and no model they depend on unless it is
\* requested too; a scheduled model comes after the scheduled models it
\* names in depends_on.
C10_OnlySelectedScheduled ==
    (sched.call = "select" /\ sched.ret.outcome = "return") =>
        /\ \A i \in 1..Len(in_models) :
              Cardinality(Positions(sched.ret.value, in_models[i])) =
                 IF \/ in_models[i].name \in sched.request
                    \/ full_name(in_models[i]) \in sched.request
                 THEN 1 ELSE 0
        /\ Range(sched.ret.value) \subseteq Range(in_models)
        /\ \A i, j \in 1..Len(in_models) :
              (/\ in_models[i] \in Range(sched.ret.value)
               /\ in_models[j] \in Range(sched.ret.value)
               /\ j \in ResolvedDeps(in_models, i)) =>
                  Before(sched.ret.value, in_models[j], in_models[i])

\* The run restricted to A and C, where C depends on B and B on A, schedules
\* A and C only.
C10_Witness ==
    /\ sched.call = "select"
    /\ Len(in_models) = 3
    /\ ResolvedDeps(in_models, 3) = {2}
    /\ ResolvedDeps(in_models, 2) = {1}
    /\ ResolvedDeps(in_models, 1) = {}
    /\ sched.request = {full_name(in_models[1]), full_name(in_models[3])}
    /\ sched.ret.outcome = "return"
    /\ sched.ret.value = <<in_models[1], in_models[3]>>

\* The full names of a list of models, in order.
NamesOf(s) == [k \in 1..Len(s) |-> full_name(s[k])]

\* The list with entry k of the depends_on of model i taken out.
WithoutEntry(models, i, k) ==
    [models EXCEPT ![i].depends_on =
        SubSeq(@, 1, k - 1) \o SubSeq(@, k + 1, Len(@))]

\* Entry k of the depends_on of model i names no model of the list.
Unresolvable(models, i, k) ==
    models[i].depends_on[k] \notin DOMAIN graph(models)

\* C11: a depends_on entry that names no model of the list does not make
\* topological_sort fail, and the list without that entry is sorted into the
\* same order, whatever the order in which the smaller set of dependencies
\* of that model is iterated (the sets of the other models are the same sets
\* and are iterated as before).
C11_UnresolvableEntryIsDropped ==
    sched.call = "topological_sort" =>
        \A i \in 1..Len(in_models) :
            \A k \in 1..Len(in_models[i].depends_on) :
                Unresolvable(in_models, i, k) =>
                    /\ Acyclic(in_models) => sched.ret.outcome = "return"
                    /\ sched.ret.outcome = "return" =>
                          \A ord2 \in SetOrders(WithoutEntry(in_models, i, k)) :
                              (\A m \in 1..Len(in_models) \ {i} : ord2[m] = in_order[m]) =>
                                  LET ret2 == topological_sort(
                                                  WithoutEntry(in_models, i, k), ord2)
                                  IN  /\ ret2.outcome = "return"
                                      /\ NamesOf(ret2.value) = NamesOf(sched.ret.value)

\* There is no dependency path between models i and j, in either direction.
Independent(models, i, j) ==
    /\ i # j
    /\ i \notin TransitiveDeps(models, j)
    /\ j \notin TransitiveDeps(models, i)

\* C12 as stated: two models with no dependency path between them are
\* returned in the relative order they have in the input list.
C12_TiesKeepDiscoveryOrder ==
    (sched.call # "none" /\ sched.ret.outcome = "return") =>
        \A i, j \in 1..Len(sched.input) :
            (i < j /\ Independent(sched.input, i, j)) =>
                Before(sched.ret.value, sched.input[i], sched.input[j])

\* C12 amended: two models with no dependency path between them are returned
\* in the relative order of the input list, unless the later one is a
\* dependency, direct or not, of a model that precedes the earlier one in
\* the input list: only then is it returned first.
C12_TiesKeepOrderUnlessPulledForward ==
    (sched.call # "none" /\ sched.ret.outcome = "return") =>
        \A i, j \in 1..Len(sched.input) :
            (i < j /\ Independent(sched.input, i, j)) =>
                \/ Before(sched.ret.value, sched.input[i], sched.input[j])
                \/ /\ Before(sched.ret.value, sched.input[j], sched.input[i])
                   /\ \E k \in 1..(i - 1) : j \in TransitiveDeps(sched.input, k)

\* Of three models the first depends on the third and the second is
\* independent of both: the third is returned first, the first and the
\* second keep their order.
C12_Witness ==
    /\ sched.call = "topological_sort"
    /\ Len(sched.input) = 3
    /\ ResolvedDeps(sched.input, 1) = {3}
    /\ ResolvedDeps(sched.input, 2) = {}
    /\ ResolvedDeps(sched.input, 3) = {}
    /\ sched.ret.outcome = "return"
    /\ sched.ret.value = <<sched.input[3], sched.input[1], sched.input[2]>>

\* C13: the order topological_sort returns for a list of models is the same
\* for every order in which the sets of dependencies are iterated.
C13_OrderIndependentOfSetIteration ==
    (sched.call = "topological_sort" /\ sched.ret.outcome = "return") =>
        \A ord2 \in SetOrders(in_models) :
            topological_sort(in_models, ord2) = sched.ret

\* The models the text of the ValueError names.
MentionedInError(ret) == {ret.involving}

\* The models S can be arranged in a cycle of resolved dependencies.
IsCycle(models, S) ==
    /\ S # {}
    /\ \E p \in Perms(S) :
          \A k \in 1..Cardinality(S) :
              p[(k % Cardinality(S)) + 1] \in ResolvedDeps(models, p[k])

\* C14: the error raised for a cycle names every model of a cycle of the
\* list.
C14_CycleErrorNamesTheCycle ==
    (sched.call # "none" /\ sched.ret.outcome = "ValueError") =>
        \E S \in SUBSET (1..Len(sched.input)) :
            /\ IsCycle(sched.input, S)
            /\ {full_name(sched.input[i]) : i \in S} \subseteq
                  MentionedInError(sched.ret)


(***************************************************************************)
(* Properties of the provenance tables over several runs.                  *)
(***************************************************************************)
\* The edges the models declare, as update_metadata writes them: the name
\* of the model and the last segment of the dependency.
DeclaredEdges(models) ==
    UNION {{<<models[i].name, last_segment(models[i].depends_on[k])>> :
               k \in 1..Len(models[i].depends_on)} : i \in 1..Len(models)}

\* update_metadata of the current non-dry run has returned.
MetadataUpdated ==
    /\ Executing
    /\ ~run.dry_run
    /\ pc \notin {"open", "metadata"}

\* update_metadata of the current non-dry run has raised.
MetadataRaised == pc = "raised" /\ run.outcome = "ConstraintException"

\* C15: once update_metadata of a non-dry run has returned, the rows of
\* meta.model_lineage are exactly the edges declared by the models of the
\* run; and no row of an earlier run that the run does not declare survives
\* the update, even one that raised.
C15_LineageIsReplaced ==
    /\ MetadataUpdated =>
          DOMAIN db.model_lineage = DeclaredEdges(run.sorted_models)
    /\ (MetadataUpdated \/ MetadataRaised) =>
          DOMAIN db.model_lineage \subseteq DeclaredEdges(run.sorted_models)

\* A second run whose model no longer declares a dependency it declared in
\* the first: the edge is gone, the edge still declared is there.
C15_Witness ==
    /\ MetadataUpdated
    /\ runs_started = 2
    /\ db.model_lineage # <<>>
    /\ DOMAIN run.db0.model_lineage \ DOMAIN db.model_lineage # {}
    /\ DOMAIN run.db0.model_lineage \cap DOMAIN db.model_lineage # {}

\* C16: the run id of an execution differs from the run id of every other
\* execution: of the other models of the run, and of the executions whose
\* rows earlier runs left in meta.model_runs.
C16_RunIdsAreUnique ==
    Executing =>
        /\ \A j, k \in 1..Len(run.results) :
              run.results[j].run_id = run.results[k].run_id => j = k
        /\ \A k \in 1..Len(run.results) :
              run.results[k].run_id \notin DOMAIN run.db0.model_runs


(***************************************************************************)
(* Properties of the execution of one model.                               *)
(***************************************************************************)
TableKinds == {"table", "export_table"}

ExportKinds == {"export_table", "export_view"}

\* The records of the run that ended in success, by position in the schedule.
Succeeded == {k \in 1..Len(run.results) : run.results[k].status = "success"}

\* C17: a successful execution records a row count for table and
\* export_table only, the count the engine reported for the CREATE OR REPLACE
\* TABLE statement; for view, export_view and external_table the recorded
\* count is null.  The record and the row of meta.model_runs hold the same.
C17_RowCountOnlyForTables ==
    /\ pc = "record_success" =>
          exec.rows_affected =
             IF exec.model.materialization \in TableKinds
             THEN RowCount(exec.reported) ELSE NoRowCount
    /\ (Executing /\ ~run.dry_run) =>
          \A k \in Succeeded :
              /\ (run.results[k].rows_affected = NoRowCount) <=>
                    (run.sorted_models[k].materialization \notin TableKinds)
              /\ run.results[k].run_id \in DOMAIN db.model_runs
              /\ db.model_runs[run.results[k].run_id].rows_affected =
                    run.results[k].rows_affected

\* A table whose statement reported the largest count has ended in success.
C17_Witness ==
    /\ pc = "done"
    /\ Len(run.results) = 1
    /\ run.results[1].status = "success"
    /\ run.sorted_models[1].materialization = "table"
    /\ run.results[1].rows_affected = RowCount(MaxRowCount)
    /\ db.model_runs[run.results[1].run_id].rows_affected = RowCount(MaxRowCount)

\* The path the model is configured to be exported to, under the export
\* directory.
ConfiguredPath(m) ==
    IF m.export.path = NoPath
    THEN <<m.layer>> \o m.name \o <<"parquet">>
    ELSE m.export.path

CreateStatement(m) ==
    IF m.materialization \in TableKinds THEN "CREATE TABLE AS" ELSE "CREATE VIEW"

CreatedKind(m) ==
    IF m.materialization \in TableKinds THEN "table" ELSE "view"

\* C18: when the statements of an export_table or export_view model have
\* succeeded, the table or view was created first and then exported once, to
\* the configured path, while the row of the execution was still running;
\* and a success record of such a model names that path, where the file is.
C18_ExportedOnceAfterCreate ==
    /\ (pc = "record_success" /\ exec.model.materialization \in ExportKinds) =>
          /\ exec.statements = <<CreateStatement(exec.model), "COPY">>
          /\ <<exec.model.layer, exec.model.name>> \in DOMAIN db.relations
          /\ db.relations[<<exec.model.layer, exec.model.name>>] =
                CreatedKind(exec.model)
          /\ exec.export_path = ConfiguredPath(exec.model)
          /\ ConfiguredPath(exec.model) \in export_dir
          /\ db.model_runs[exec.run_id].status = "running"
    /\ (Executing /\ ~run.dry_run) =>
          \A k \in Succeeded :
              run.sorted_models[k].materialization \in ExportKinds =>
                  /\ run.results[k].export_path = ConfiguredPath(run.sorted_models[k])
                  /\ ConfiguredPath(run.sorted_models[k]) \in export_dir
                  /\ <<run.sorted_models[k].layer, run.sorted_models[k].name>>
                        \in DOMAIN db.relations

\* An export_view model with a path of its own has ended in success.
C18_Witness ==
    /\ pc = "done"
    /\ Len(run.results) = 1
    /\ run.results[1].status = "success"
    /\ run.sorted_models[1].materialization = "export_view"
    /\ run.sorted_models[1].export.path = CustomPath
    /\ run.results[1].export_path = CustomPath
    /\ export_dir = {CustomPath}

\* C19: when the run command exits after a run with fail-fast in which a
\* model ended in error, it has echoed the numbers of success and of error
\* records and its exit status is not 0.
C19_RunCommandExitStatus ==
    (/\ cli.command = "run"
     /\ run.fail_fast
     /\ \E k \in 1..Len(run.results) : run.results[k].status = "error") =>
        /\ cli.echoed = [success |-> Cardinality(Succeeded),
                         errors |-> Len(run.results) - Cardinality(Succeeded)]
        /\ cli.exit_code # 0

\* The second of three models failed: the command echoed one success and
\* one error and exited with status 1.
C19_Witness ==
    /\ cli.command = "run"
    /\ run.fail_fast
    /\ Len(run.sorted_models) = 3
    /\ Len(run.results) = 2
    /\ run.results[2].status = "error"
    /\ cli.echoed = [success |-> 1, errors |-> 1]
    /\ cli.exit_code = 1


(***************************************************************************)
(* Properties of the batch uploads.                                        *)
(***************************************************************************)
\* The files attempted so far, in order.
Attempted == [k \in 1..Len(upload.attempts) |-> upload.attempts[k].file]

Uploaded == {k \in 1..Len(upload.attempts) : upload.attempts[k].success}

\* C20: a batch upload attempts the files of the batch one after the other,
\* each once, whatever the earlier uploads returned; when it ends every file
\* has been attempted and has its own result, and the numbers of successes
\* and of failures reported add up to the number of files.
C20_EveryFileAttemptedOnce ==
    upload.pc # "idle" =>
        /\ \A j, k \in 1..Len(upload.attempts) :
              upload.attempts[j].file = upload.attempts[k].file => j = k
        /\ upload.pc = "loop" =>
              Attempted = SubSeq(upload.files, 1, upload.i - 1)
        /\ upload.pc = "returned" =>
              /\ Attempted = upload.files
              /\ upload.success_count = Cardinality(Uploaded)
              /\ upload.error_count = Len(upload.files) - Cardinality(Uploaded)
              /\ upload.success_count + upload.error_count = Len(upload.files)
              /\ upload.call = "upload_directory_to_r2" =>
                    /\ DOMAIN upload.results = Range(upload.files)
                    /\ \A k \in 1..Len(upload.attempts) :
                          upload.results[upload.attempts[k].file] =
                             upload.attempts[k].success

\* A batch of three files whose first upload failed has ended: the second
\* and the third were attempted, and the third failed too.
C20_Witness ==
    /\ upload.pc = "returned"
    /\ Len(upload.files) = 3
    /\ Len(upload.attempts) = 3
    /\ ~upload.attempts[1].success
    /\ upload.attempts[2].success
    /\ ~upload.attempts[3].success
    /\ upload.success_count = 1
    /\ upload.error_count = 2


(***************************************************************************)
(* Properties of the sequence of executions of a run.                      *)
(***************************************************************************)
\* The rows of meta.model_runs in status running.
RunningRows == {id \in DOMAIN db.model_runs : db.model_runs[id].status = "running"}

\* C26: the models of a non-dry run are executed one at a time in the order
\* of the schedule: at most one row is in status running, it is the row of
\* the model being executed, which is the next of the schedule; between two
\* models and once the run has returned no row is in status running.
C26_OneRunningRowAtATime ==
    (Executing /\ ~run.dry_run) =>
        /\ Cardinality(RunningRows) <= 1
        /\ \A k \in 1..Len(run.results) :
              run.results[k].model_name = full_name(run.sorted_models[k])
        /\ exec # NoExec =>
              /\ exec.model = run.sorted_models[Len(run.results) + 1]
              /\ RunningRows \subseteq {exec.run_id}
        /\ exec = NoExec => RunningRows = {}
        /\ pc = "done" => RunningRows = {}

\* The second model of a run is being executed, its row is running, and the
\* row of the first, which failed, is in status error.
C26_Witness ==
    /\ Executing
    /\ ~run.dry_run
    /\ pc = "materialize"
    /\ Len(run.results) = 1
    /\ run.results[1].status = "error"
    /\ run.results[1].run_id \in DOMAIN db.model_runs
    /\ db.model_runs[run.results[1].run_id].status = "error"
    /\ RunningRows = {exec.run_id}

\* C27: a model whose execution ended in success has been exported if and
\* only if its should_export is true.
C27_ExportedIffShouldExport ==
    (Executing /\ ~run.dry_run) =>
        \A k \in Succeeded :
            (/\ run.results[k].export_path # NoPath
             /\ run.results[k].export_path \in export_dir)
                <=> should_export(run.sorted_models[k])

\* The number of dependencies the models declare.
RECURSIVE DeclaredCount(_)
DeclaredCount(models) ==
    IF models = <<>> THEN 0
    ELSE Len(Head(models).depends_on) + DeclaredCount(Tail(models))

\* C28: the metadata update of a non-dry run never raises, and once it has
\* returned meta.model_lineage holds one row per declared dependency and
\* meta.model_docs one row per model of the run.
C28_MetadataUpdateCompletes ==
    /\ ~MetadataRaised
    /\ MetadataUpdated =>
          /\ Cardinality(DOMAIN db.model_lineage) = DeclaredCount(run.sorted_models)
          /\ Cardinality(DOMAIN db.model_docs) = Len(run.sorted_models)


(***************************************************************************)
(* discover_models on a models directory: one layer folder with its SQL    *)
(* files and its schema.yml.                                               *)
(***************************************************************************)
MaxEntries == 2
MaxFiles == 2

\* The stems of the SQL files and the names of the schema entries.
FileNames == {<<NamePool[i]>> : i \in 1..MaxFiles}

\* An entry of models: without the key name.
NoName == <<>>

\* The export block of an entry: absent (or empty), or a mapping with enabled
\* and path.
ExportBlock(present, enabled, path) ==
    [present |-> present, enabled |-> enabled, path |-> path]

NoExportBlock == ExportBlock(FALSE, FALSE, NoPath)

ExportBlocks ==
    {NoExportBlock} \cup {ExportBlock(TRUE, e, p) : e \in BOOLEAN, p \in {NoPath, CustomPath}}

\* An entry of the list models of schema.yml.  mapping: the entry is a YAML
\* mapping; well_formed: every item of columns has a name and export, if
\* present, is a mapping.
Entry(mapping, name, materialized, depends_on, export, well_formed) ==
    [mapping |-> mapping, name |-> name, materialized |-> materialized,
     depends_on |-> depends_on, export |-> export, well_formed |-> well_formed]

\* An item of models that is a scalar, as in "- b".
ScalarEntry == Entry(FALSE, NoName, DefaultMaterialization, <<>>, NoExportBlock, TRUE)

Entries(names, materializations, depends, exports) ==
    {ScalarEntry} \cup
    {Entry(TRUE, n, mat, deps, e, wf) :
        n \in names, mat \in materializations, deps \in depends,
        e \in exports, wf \in BOOLEAN}

\* schema.yml of a layer folder: missing, not YAML, a mapping without the
\* key models, or a mapping with the list models.
SchemaFile(kind, models) == [kind |-> kind, models |-> models]

SchemaFiles(entries) ==
    {SchemaFile(k, <<>>) : k \in {"missing", "invalid", "no_models"}} \cup
    {SchemaFile("models", ms) : ms \in SeqsUpTo(entries, MaxEntries)}

\* layer_path.glob('*.sql'): the files of the folder, in the order of the
\* file system.
SqlFiles == UNION {Perms(S) : S \in SUBSET FileNames}

Directories(layers, entries) ==
    [layer : layers, sql_files : SqlFiles, schema : SchemaFiles(entries)]

\* _parse_schema_yml returns {} : discover_models takes every default.
EmptyMetadata(warned) ==
    [found |-> FALSE, warned |-> warned, depends_on |-> <<>>,
     materialization |-> DefaultMaterialization, export |-> <<>>]

\* _parse_schema_yml, lines 211-234: the metadata of a matching entry; the key
\* export is set only for a non-empty export block.
EntryMetadata(e) ==
    [found |-> TRUE, warned |-> FALSE, depends_on |-> e.depends_on,
     materialization |-> e.materialized,
     export |-> IF e.export.present
                THEN <<ExportConfig(e.export.enabled, e.export.path)>>
                ELSE <<>>]

\* _parse_schema_yml, lines 209-238: the loop over the entries.  The first
\* entry whose name is model_name is returned; an exception anywhere in the
\* loop (get on an entry that is no mapping, col['name'] or export.get in the
\* matching entry) leaves through the except clause, which returns {}.
RECURSIVE find_entry(_, _)
find_entry(entries, model_name) ==
    IF entries = <<>> THEN EmptyMetadata(FALSE)
    ELSE LET e == Head(entries)
         IN  IF ~e.mapping THEN EmptyMetadata(TRUE)
             ELSE IF e.name = model_name
             THEN IF e.well_formed THEN EntryMetadata(e) ELSE EmptyMetadata(TRUE)
             ELSE find_entry(Tail(entries), model_name)

\* _parse_schema_yml(schema_path, model_name), called when the file exists
parse_schema_yml(schema, model_name) ==
    IF schema.kind = "invalid" THEN EmptyMetadata(TRUE)
    ELSE IF schema.kind = "no_models" THEN EmptyMetadata(FALSE)
    ELSE find_entry(schema.models, model_name)

\* discover_models, lines 177-196: one ModelConfig per SQL file of the layer
\* folder, with the metadata of schema.yml or the defaults.
discover_layer(dir) ==
    [k \in 1..Len(dir.sql_files) |->
        LET metadata == IF dir.schema.kind # "missing"
                        THEN parse_schema_yml(dir.schema, dir.sql_files[k])
                        ELSE EmptyMetadata(FALSE)
        IN  ModelConfig(dir.layer, dir.sql_files[k], metadata.depends_on,
                        metadata.materialization,
                        IF metadata.export # <<>> THEN metadata.export[1]
                        ELSE DefaultExport)]

DiscoverEntries ==
    Entries(FileNames, {"view", "table"}, {<<>>, <<UndefinedModel>>},
            {NoExportBlock, ExportBlock(TRUE, TRUE, CustomPath)})

DiscoverInit ==
    /\ RunInit
    /\ in_models = <<>>
    /\ in_order = <<>>
    /\ sched = [call |-> "none"]
    /\ directory \in Directories({"raw"}, DiscoverEntries)
    /\ discovery = NoDiscovery
    /\ deploy = NoDeploy
    /\ SraIdle

\* discover_models(models_dir)
DiscoverModels ==
    /\ directory # NoDirectory
    /\ discovery.pc = "idle"
    /\ deploy.pc = "idle"
    /\ discovery' = [pc |-> "returned", models |-> discover_layer(directory)]
    /\ UNCHANGED <<sched_vars, run_vars, cli, upload, directory, deploy, sra_vars>>

SpecDiscover == DiscoverInit /\ [][DiscoverModels]_vars

\* The first mapping of the list models whose name is model_name.
RECURSIVE Declared(_, _)
Declared(entries, model_name) ==
    IF entries = <<>> THEN <<>>
    ELSE IF Head(entries).mapping /\ Head(entries).name = model_name
    THEN <<Head(entries)>>
    ELSE Declared(Tail(entries), model_name)

\* The models with the defaults: view, no dependencies, export disabled.
IsDefault(m) ==
    /\ m.materialization = DefaultMaterialization
    /\ m.depends_on = <<>>
    /\ m.export = DefaultExport

\* The model has what its entry declares.
IsAsDeclared(m, e) ==
    /\ m.materialization = e.materialized
    /\ m.depends_on = e.depends_on
    /\ m.export = IF e.export.present
                  THEN ExportConfig(e.export.enabled, e.export.path)
                  ELSE DefaultExport

\* C24: discover_models returns one model per SQL file whatever schema.yml
\* holds; a model is returned with the defaults when the file is missing,
\* is not YAML or has no entry for it, and a model whose own entry is a well
\* formed mapping is returned as declared whatever the other entries of the
\* file are.
C24_MetadataFailureDegradesOneModel ==
    discovery.pc = "returned" =>
        /\ Len(discovery.models) = Len(directory.sql_files)
        /\ \A k \in 1..Len(discovery.models) :
              LET m == discovery.models[k]
                  own == Declared(directory.schema.models, m.name)
              IN  /\ m.layer = directory.layer
                  /\ m.name = directory.sql_files[k]
                  /\ (directory.schema.kind # "models" \/ own = <<>>) => IsDefault(m)
                  /\ (own # <<>> /\ own[1].well_formed) => IsAsDeclared(m, own[1])
                  /\ (own # <<>> /\ ~own[1].well_formed) => IsDefault(m)


(***************************************************************************)
(* Deployment: the catalog of the schema files and the database of remote  *)
(* views.                                                                  *)
(***************************************************************************)
MaxCatalogs == 2

\* DeploymentConfig.public_url: None, or the base URL of the bucket
NoUrl == <<>>

PublicUrl == <<"public_url">>

\* DeploymentConfig.data_prefix
data_prefix == "data"

\* DeploymentConfig.catalog_path, under the export directory
catalog_path == <<"catalog", "json">>

\* DeploymentConfig.database_path, under the export directory
database_path == <<"omicidx", "duckdb">>

\* run_warehouse, lines 546-554, on the models of the directory: the export
\* files the executions leave and the models the engine wrote a file for.
RECURSIVE run_models(_, _, _, _)
run_models(models, d, files, engine) ==
    IF models = <<>> THEN [files |-> files, exported |-> {}]
    ELSE LET m == materialize(Head(models), d, files, engine)
             rest == run_models(Tail(models), m.db, m.files, engine)
         IN  [files |-> rest.files,
              exported |-> rest.exported \cup
                  (IF m.error = Null /\ m.export_path # NoPath
                   THEN {<<full_name(Head(models)), m.export_path>>}
                   ELSE {})]

\* The size of a file that depends on how many files the directory holds.
size_of_directory(sizes, path) == Cardinality(DOMAIN sizes)

\* local_export_path.stat().st_size
file_size(sizes, path) == sizes[path]

\* f"{deployment_config.public_url}/{deployment_config.data_prefix}/{export_path}"
public_file_url(public_url, path) == public_url \o <<data_prefix>> \o path

\* generate_catalog, lines 91-110: the export information of a table, set
\* only for an enabled export block with a path whose file exists.
table_export(e, sizes, public_url) ==
    IF /\ e.export.present
       /\ e.export.enabled
       /\ e.export.path # NoPath
       /\ e.export.path \in DOMAIN sizes
    THEN <<[path |-> e.export.path,
            file_size_bytes |-> file_size(sizes, e.export.path),
            url |-> IF public_url # NoUrl
                    THEN <<public_file_url(public_url, e.export.path)>>
                    ELSE <<>>]>>
    ELSE <<>>

\* generate_catalog, lines 69-81
table_info(e, layer, sizes, public_url) ==
    [name |-> e.name, layer |-> layer, full_name |-> <<layer>> \o e.name,
     materialization |-> e.materialized,
     export |-> table_export(e, sizes, public_url)]

\* generate_catalog, lines 69-112: the loop over the entries of one schema
\* file.  model['name'] raises on an entry that is no mapping or has no name,
\* column['name'] and export.get on an entry that is not well formed; a later
\* entry of a full name replaces an earlier one.
RECURSIVE catalog_tables(_, _, _, _)
catalog_tables(entries, layer, sizes, public_url) ==
    IF entries = <<>> THEN [raised |-> FALSE, tables |-> <<>>]
    ELSE LET e == Head(entries)
             rest == catalog_tables(Tail(entries), layer, sizes, public_url)
         IN  IF ~e.mapping \/ e.name = NoName \/ ~e.well_formed \/ rest.raised
             THEN [raised |-> TRUE, tables |-> <<>>]
             ELSE [raised |-> FALSE,
                   tables |-> rest.tables @@
                       ((<<layer>> \o e.name) :> table_info(e, layer, sizes, public_url))]

\* generate_catalog(warehouse_config, deployment_config, output_path)
generate_catalog(dir, sizes, public_url, generated_at) ==
    LET catalog(tables) ==
            [version |-> "1.0", generated_at |-> generated_at,
             public_url |-> public_url, tables |-> tables]
        found == catalog_tables(dir.schema.models, dir.layer, sizes, public_url)
    IN  IF dir.schema.kind \in {"missing", "no_models"}
        THEN [raised |-> FALSE, catalog |-> catalog(<<>>)]
        ELSE IF dir.schema.kind = "invalid" \/ found.raised
        THEN [raised |-> TRUE, catalog |-> catalog(<<>>)]
        ELSE [raised |-> FALSE, catalog |-> catalog(found.tables)]

\* create_remote_database, lines 186-192: the public URL of the catalog, or
\* the local path under the export directory
view_file_url(info, public_url) ==
    IF public_url # NoUrl THEN info.export[1].url[1]
    ELSE <<"export_dir">> \o info.export[1].path

\* create_remote_database(warehouse_config, deployment_config, catalog):
\* a schema per layer, a view per table with export information (a CREATE
\* VIEW that fails is logged and skipped) and the table _catalog.
create_remote_database(catalog, public_url, view_ok) ==
    LET with_export == {fn \in DOMAIN catalog.tables : catalog.tables[fn].export # <<>>}
        created == IF public_url = NoUrl \/ view_ok THEN with_export ELSE {}
    IN  [schemas |-> {catalog.tables[fn].layer : fn \in DOMAIN catalog.tables} \ {"default"},
         views |-> [fn \in created |-> view_file_url(catalog.tables[fn], public_url)],
         failed |-> with_export \ created,
         catalog |-> catalog]

DeployEntries ==
    Entries(FileNames, {"view", "export_table"}, {<<>>}, ExportBlocks)

DeployInit ==
    /\ RunInit
    /\ in_models = <<>>
    /\ in_order = <<>>
    /\ sched = [call |-> "none"]
    /\ directory \in Directories({"raw"}, DeployEntries)
    /\ discovery = NoDiscovery
    /\ \E url \in {NoUrl, PublicUrl} :
          deploy = [pc |-> "start", public_url |-> url, sizes |-> <<>>,
                    exported |-> {}, clock |-> 0, catalogs |-> <<>>]
    /\ SraIdle

\* The warehouse run over the directory, before anything is deployed.
DeployRun ==
    /\ deploy.pc = "start"
    /\ \E engine \in EngineAnswers :
          LET models == discover_layer(directory)
              ran == run_models(models, connect_and_init(NoDatabase), {}, engine)
          IN  /\ discovery' = [pc |-> "returned", models |-> models]
              /\ deploy' = [deploy EXCEPT
                               !.pc = "exported",
                               !.sizes = [f \in ran.files |-> engine.count + 1],
                               !.exported = ran.exported]
    /\ UNCHANGED <<sched_vars, run_vars, cli, upload, directory, sra_vars>>

\* generate_catalog, called with the output path of the deploy catalog
\* command or with none.
GenerateCatalog ==
    /\ deploy.pc \in {"exported", "catalog"}
    /\ Len(deploy.catalogs) < MaxCatalogs
    /\ \E t \in deploy.clock..MaxTime, write \in BOOLEAN :
          LET ret == generate_catalog(directory, deploy.sizes, deploy.public_url, t)
          IN  IF ret.raised
              THEN deploy' = [deploy EXCEPT !.pc = "raised", !.clock = t]
              ELSE deploy' = [deploy EXCEPT
                                 !.pc = "catalog",
                                 !.clock = t,
                                 !.catalogs = Append(@, ret.catalog),
                                 !.sizes = IF write THEN (catalog_path :> 1) @@ @ ELSE @]
    /\ UNCHANGED <<sched_vars, run_vars, cli, upload, directory, discovery, sra_vars>>

\* create_remote_database on the catalog generate_catalog returned last.
CreateRemoteDatabase ==
    /\ deploy.pc = "catalog"
    /\ \E view_ok \in BOOLEAN :
          deploy' = [pc |-> "database", public_url |-> deploy.public_url,
                     sizes |-> (database_path :> 1) @@ deploy.sizes,
                     exported |-> deploy.exported, clock |-> deploy.clock,
                     catalogs |-> deploy.catalogs,
                     remote |-> create_remote_database(
                                    deploy.catalogs[Len(deploy.catalogs)],
                                    deploy.public_url, view_ok)]
    /\ UNCHANGED <<sched_vars, run_vars, cli, upload, directory, discovery, sra_vars>>

DeployNext == DeployRun \/ GenerateCatalog \/ CreateRemoteDatabase

SpecDeploy == DeployInit /\ [][DeployNext]_vars


(***************************************************************************)
(* Properties of the catalog and of the remote views.                      *)
(***************************************************************************)
\* Where the views of the remote database read the export file of a path.
ResolvedUrl(path) ==
    IF deploy.public_url # NoUrl THEN public_file_url(deploy.public_url, path)
    ELSE <<"export_dir">> \o path

\* C21: once generate_catalog and create_remote_database have returned, the
\* remote database holds, for every model the engine wrote an export file
\* for, a view of the model's full name that reads that file (unless the
\* engine refused the CREATE VIEW of that model).
C21_EveryExportedModelHasAView ==
    deploy.pc = "database" =>
        \A x \in deploy.exported :
            \/ x[1] \in deploy.remote.failed
            \/ /\ x[1] \in DOMAIN deploy.remote.views
               /\ deploy.remote.views[x[1]] = ResolvedUrl(x[2])

\* C22: the tables of a generated catalog are keyed by exactly the full
\* names of the models discover_models returns for the same directory.
C22_CatalogDescribesDiscoveredModels ==
    (deploy.pc \in {"catalog", "database"}) =>
        \A c \in 1..Len(deploy.catalogs) :
            DOMAIN deploy.catalogs[c].tables =
                {full_name(discovery.models[k]) : k \in 1..Len(discovery.models)}

\* C23: two calls of generate_catalog on unchanged schema files and export
\* files with the same configuration return catalogs that are equal in every
\* field but generated_at.
C23_CatalogIsIdempotent ==
    (deploy.pc # "idle" /\ Len(deploy.catalogs) = 2) =>
        [deploy.catalogs[1] EXCEPT !.generated_at = 0] =
            [deploy.catalogs[2] EXCEPT !.generated_at = 0]

\* Two catalogs generated at different times, the first written to
\* catalog.json, with a table that has export information.
C23_Witness ==
    /\ deploy.pc = "catalog"
    /\ Len(deploy.catalogs) = 2
    /\ deploy.catalogs[1].generated_at # deploy.catalogs[2].generated_at
    /\ catalog_path \in DOMAIN deploy.sizes
    /\ \E fn \in DOMAIN deploy.catalogs[2].tables :
          deploy.catalogs[2].tables[fn].export # <<>>


(***************************************************************************)
(* normalize_record and the schemas of the SRA record types.               *)
(***************************************************************************)
MaxFields == 2

\* A field of a schema: its name and str(field.type), cut after the first
\* type of a nested type.
F(name, type) == [name |-> name, type |-> type]

\* str(field.type).startswith("list")
startswith_list(type) == type \in {"list<struct>", "list<string>"}

run_schema ==
    <<F("accession", "string"), F("alias", "string"),
      F("experiment_accession", "string"), F("title", "string"),
      F("total_spots", "int64"), F("total_bases", "int64"), F("size", "int64"),
      F("avg_length", "double"), F("identifiers", "list<struct>"),
      F("attributes", "list<struct>"), F("files", "list<struct>"),
      F("reads", "list<struct>"), F("base_counts", "list<struct>"),
      F("qualities", "list<struct>"), F("tax_analysis", "struct")>>

study_schema ==
    <<F("accession", "string"), F("study_accession", "string"), F("alias", "string"),
      F("title", "string"), F("description", "string"), F("abstract", "string"),
      F("study_type", "string"), F("center_name", "string"),
      F("broker_name", "string"), F("BioProject", "string"), F("GEO", "string"),
      F("identifiers", "list<struct>"), F("attributes", "list<struct>"),
      F("xrefs", "list<struct>"), F("pubmed_ids", "list<string>")>>

sample_schema ==
    <<F("accession", "string"), F("alias", "string"), F("title", "string"),
      F("organism", "string"), F("description", "string"), F("taxon_id", "int32"),
      F("geo", "string"), F("BioSample", "string"), F("identifiers", "list<struct>"),
      F("attributes", "list<struct>"), F("xrefs", "list<struct>")>>

experiment_schema ==
    <<F("accession", "string"), F("experiment_accession", "string"),
      F("alias", "string"), F("title", "string"), F("description", "string"),
      F("design", "string"), F("center_name", "string"),
      F("study_accession", "string"), F("sample_accession", "string"),
      F("platform", "string"), F("instrument_model", "string"),
      F("library_name", "string"), F("library_construction_protocol", "string"),
      F("library_layout", "string"), F("library_layout_orientation", "string"),
      F("library_layout_length", "string"), F("library_layout_sdev", "string"),
      F("library_strategy", "string"), F("library_source", "string"),
      F("library_selection", "string"), F("spot_length", "int64"),
      F("nreads", "int64"), F("identifiers", "list<struct>"),
      F("attributes", "list<struct>"), F("xrefs", "list<struct>"),
      F("reads", "list<struct>")>>

\* get_pyarrow_schemas(): the schema of each record type that has one
PYARROW_SCHEMAS ==
    [record_type \in {"run", "study", "sample", "experiment"} |->
        IF record_type = "run" THEN run_schema
        ELSE IF record_type = "study" THEN study_schema
        ELSE IF record_type = "sample" THEN sample_schema
        ELSE experiment_schema]

\* The values of the fields of a record: None, a list, a string, a mapping.
None == [kind |-> "None", items |-> <<>>]

FieldValues ==
    {None, [kind |-> "list", items |-> <<>>], [kind |-> "list", items |-> <<"x">>],
     [kind |-> "str", items |-> <<"x">>], [kind |-> "dict", items |-> <<"x">>]}

\* record.get(field_name)
get(record, field_name) ==
    IF field_name \in DOMAIN record THEN record[field_name] ELSE None

\* A list field is copied as it is, null or not.
list_field_copied(field_value) == field_value

\* normalize_record, lines 282-286: a list field that is None or not a list
\* becomes [], a list is kept
list_field(field_value) ==
    IF field_value = None \/ field_value.kind # "list"
    THEN [kind |-> "list", items |-> <<>>]
    ELSE field_value

\* normalize_record(record, record_type): the record itself for a record
\* type without schema; otherwise the fields of the schema and no others,
\* the list fields through list_field, every other field as record.get
\* returns it.
normalize_record(record, record_type) ==
    IF record_type \notin DOMAIN PYARROW_SCHEMAS THEN record
    ELSE LET schema == PYARROW_SCHEMAS[record_type]
         IN  [field_name \in {schema[i].name : i \in 1..Len(schema)} |->
                 LET field == CHOOSE f \in Range(schema) : f.name = field_name
                     field_value == get(record, field_name)
                 IN  IF startswith_list(field.type) THEN list_field(field_value)
                     ELSE field_value]

\* The record types of the calls: those of infer_record_type_from_url and
\* one that has no schema.
RecordTypes == DOMAIN PYARROW_SCHEMAS \cup {"analysis"}

\* The records of the calls: at most MaxFields keys are present, among the
\* fields of the schema (of the run schema for a type that has none) and one
\* key the schema does not know.
Records(record_type) ==
    LET schema == IF record_type \in DOMAIN PYARROW_SCHEMAS
                  THEN PYARROW_SCHEMAS[record_type] ELSE run_schema
        record_keys == {schema[i].name : i \in 1..Len(schema)} \cup {"unknown_key"}
    IN  UNION {[keys -> FieldValues] :
                  keys \in {S \in {{a, b} : a, b \in record_keys} \cup {{}} :
                               Cardinality(S) <= MaxFields}}

NormalizeInit ==
    /\ RunInit
    /\ in_models = <<>>
    /\ in_order = <<>>
    /\ sched = [call |-> "none"]
    /\ DeployIdle
    /\ \E record_type \in RecordTypes :
          \E record \in Records(record_type) :
              norm = [pc |-> "called", record_type |-> record_type, record |-> record]
    /\ sra_flow = NoCall
    /\ extraction = NoCall

\* normalize_record(obj.data, record_type)
NormalizeRecord ==
    /\ norm.pc = "called"
    /\ norm' = [pc |-> "returned", record_type |-> norm.record_type,
                record |-> norm.record,
                normalized |-> normalize_record(norm.record, norm.record_type)]
    /\ UNCHANGED <<sched_vars, run_vars, cli, upload, deploy_vars, sra_flow, extraction>>

SpecNormalize == NormalizeInit /\ [][NormalizeRecord]_vars

\* The names of the list-typed fields of the schema of a record type.
ListFields(record_type) ==
    {f.name : f \in {g \in Range(PYARROW_SCHEMAS[record_type]) : startswith_list(g.type)}}

\* C25: for a record type that has a schema, normalize_record returns a
\* record that holds every list-typed field of the schema with a list: the
\* empty list when the field is null or missing in the record, the list of
\* the record when the record holds a list.
C25_ListFieldsAreLists ==
    (norm.pc = "returned" /\ norm.record_type \in DOMAIN PYARROW_SCHEMAS) =>
        \A f \in ListFields(norm.record_type) :
            /\ f \in DOMAIN norm.normalized
            /\ norm.normalized[f].kind = "list"
            /\ (f \notin DOMAIN norm.record \/ get(norm.record, f) = None)
                  => norm.normalized[f].items = <<>>
            /\ (f \in DOMAIN norm.record /\ norm.record[f].kind = "list")
                  => norm.normalized[f] = norm.record[f]

\* A run record whose files are null and whose reads are a list of one item
\* has been normalized.
C25_Witness ==
    /\ norm.pc = "returned"
    /\ norm.record_type = "run"
    /\ DOMAIN norm.record = {"files", "reads"}
    /\ norm.record["files"] = None
    /\ norm.record["reads"] = [kind |-> "list", items |-> <<"x">>]
    /\ norm.normalized["files"] = [kind |-> "list", items |-> <<>>]
    /\ norm.normalized["reads"] = norm.record["reads"]


(***************************************************************************)
(* The SRA flow (sra_get_urls) and its state in a Prefect variable.        *)
(***************************************************************************)
MaxFlowRuns == 2
MaxUrls == 2
MaxMonth == 2

\* The URLs of the mirror: the directory (a full dump or an incremental
\* one) and the file.
Urls == {<<"NCBI_SRA_Mirroring_1_Full", "meta_run_set">>,
         <<"NCBI_SRA_Mirroring_2", "meta_run_set">>}

\* hashlib.md5(url.encode()).hexdigest()[:16]: one of the hashes, by the
\* function md5 of the behaviour, which may map two URLs to one hash
url_hash(url) == sra_flow.md5[url]

\* CompactSRAState(current_month=current_month)
CompactSRAState(current_month) ==
    [current_month |-> current_month, last_full_dump |-> <<>>,
     processed_url_hashes |-> <<>>, completed_entities |-> <<>>,
     total_partitions_processed |-> 0]

\* A state that takes no URL for processed.
never_processed(state, url) == FALSE

\* CompactSRAState.is_url_processed
is_url_processed(state, url) == url_hash(url) \in Range(state.processed_url_hashes)

\* CompactSRAState.add_processed_url
add_processed_url(state, url) ==
    IF url_hash(url) \notin Range(state.processed_url_hashes)
    THEN [state EXCEPT !.processed_url_hashes = Append(@, url_hash(url)),
                       !.total_partitions_processed = @ + 1]
    ELSE state

\* CompactSRAState.get_unprocessed_urls
get_unprocessed_urls(state, all_urls) ==
    SelectSeq(all_urls, LAMBDA url : ~is_url_processed(state, url))

\* CompactSRAState.mark_entity_complete
mark_entity_complete(state, entity) ==
    IF entity \notin Range(state.completed_entities)
    THEN [state EXCEPT !.completed_entities = Append(@, entity)]
    ELSE state

\* load_sra_state: the state of the variable, or a new state of the current
\* month when there is no variable or reading it fails
load_sra_state(variable, read_ok, current_month) ==
    IF read_ok /\ variable # <<>> THEN variable[1]
    ELSE CompactSRAState(current_month)

\* An entry of the history of the flow runs.
Event(e, url) == [e |-> e, url |-> url]

FlowInit ==
    /\ RunInit
    /\ in_models = <<>>
    /\ in_order = <<>>
    /\ sched = [call |-> "none"]
    /\ DeployIdle
    /\ norm = NoCall
    /\ extraction = NoCall
    /\ \E md5 \in [Urls -> {"h1", "h2"}] :
          sra_flow = [pc |-> "ready", md5 |-> md5, variable |-> <<>>,
                      state |-> CompactSRAState(1), all_urls |-> <<>>, queue |-> <<>>,
                      month |-> 1, runs |-> 0, log |-> <<>>]

\* sra_get_urls, lines 181-219: the state is loaded, reset in a new month,
\* and the URLs of the mirror that it does not hold are selected.
FlowStart ==
    /\ sra_flow.pc \in {"ready", "done", "raised", "killed"}
    /\ sra_flow.runs < MaxFlowRuns
    /\ \E current_month \in sra_flow.month..MaxMonth, read_ok \in BOOLEAN,
          all_urls \in SeqsUpTo(Urls, MaxUrls) :
          LET loaded == load_sra_state(sra_flow.variable, read_ok, current_month)
              reset == loaded.current_month # current_month
              state == IF reset THEN CompactSRAState(current_month) ELSE loaded
          IN  sra_flow' = [sra_flow EXCEPT
                  !.pc = "loop",
                  !.state = state,
                  !.all_urls = all_urls,
                  !.queue = get_unprocessed_urls(state, all_urls),
                  !.month = current_month,
                  !.runs = @ + 1,
                  !.log = @ \o <<Event(IF read_ok /\ sra_flow.variable # <<>>
                                       THEN "load" ELSE "fresh", <<>>)>>
                            \o (IF reset THEN <<Event("reset", <<>>)>> ELSE <<>>)]
    /\ UNCHANGED <<sched_vars, run_vars, cli, upload, deploy_vars, norm, extraction>>

\* sra_parse(url, outfile_name, state): nothing for a URL the state holds;
\* otherwise the file is downloaded, parsed and written, which may raise,
\* and the URL is added to the state.
FlowParse ==
    /\ sra_flow.pc = "loop"
    /\ sra_flow.queue # <<>>
    /\ LET url == Head(sra_flow.queue)
       IN  IF is_url_processed(sra_flow.state, url)
           THEN sra_flow' = [sra_flow EXCEPT !.pc = "save"]
           ELSE \E parsed \in BOOLEAN :
                   IF parsed
                   THEN sra_flow' = [sra_flow EXCEPT
                           !.pc = "save",
                           !.state = [add_processed_url(@, url) EXCEPT
                                         !.last_full_dump =
                                             IF url[1] = "NCBI_SRA_Mirroring_1_Full"
                                             THEN <<sra_flow.month>> ELSE @],
                           !.log = Append(@, Event("parse", url))]
                   ELSE sra_flow' = [sra_flow EXCEPT
                           !.pc = "raised",
                           !.log = Append(@, Event("parse", url))]
    /\ UNCHANGED <<sched_vars, run_vars, cli, upload, deploy_vars, norm, extraction>>

\* save_sra_state(state) after each URL of the loop: the variable is
\* overwritten, or the error of Variable.set is raised again.
FlowSave ==
    /\ sra_flow.pc = "save"
    /\ \E set_ok \in BOOLEAN :
          IF set_ok
          THEN sra_flow' = [sra_flow EXCEPT
                  !.pc = "loop",
                  !.variable = <<sra_flow.state>>,
                  !.queue = Tail(@),
                  !.log = Append(@, Event("save", <<>>))]
          ELSE sra_flow' = [sra_flow EXCEPT !.pc = "raised"]
    /\ UNCHANGED <<sched_vars, run_vars, cli, upload, deploy_vars, norm, extraction>>

\* sra_get_urls, lines 240-254: the accessions, once a month, and the last
\* save of the state.
FlowFinish ==
    /\ sra_flow.pc = "loop"
    /\ sra_flow.queue = <<>>
    /\ \E task_ok \in BOOLEAN :
          IF task_ok
          THEN LET state == mark_entity_complete(sra_flow.state, "accessions")
               IN  sra_flow' = [sra_flow EXCEPT
                       !.pc = "done",
                       !.state = state,
                       !.variable = <<state>>,
                       !.log = Append(@, Event("save", <<>>))]
          ELSE sra_flow' = [sra_flow EXCEPT !.pc = "raised"]
    /\ UNCHANGED <<sched_vars, run_vars, cli, upload, deploy_vars, norm, extraction>>

\* The process of the flow is stopped from outside.
FlowInterrupt ==
    /\ sra_flow.pc \in {"loop", "save"}
    /\ sra_flow' = [sra_flow EXCEPT !.pc = "killed"]
    /\ UNCHANGED <<sched_vars, run_vars, cli, upload, deploy_vars, norm, extraction>>

SpecFlow ==
    FlowInit /\ [][FlowStart \/ FlowParse \/ FlowSave \/ FlowFinish \/ FlowInterrupt]_vars


(***************************************************************************)
(* Properties of the SRA flow.                                             *)
(***************************************************************************)
\* The hashes the variable holds for the month of the state at hand.
SavedHashes ==
    IF /\ sra_flow.variable # <<>>
       /\ sra_flow.variable[1].current_month = sra_flow.state.current_month
    THEN Range(sra_flow.variable[1].processed_url_hashes)
    ELSE {}

\* C29: a URL is not parsed twice in one flow run, and a URL whose parsing
\* was followed by the save of the state is not parsed again by a later run
\* that loads the variable, unless the state was reset for a new month in
\* between (or a run in between could not load the variable and started from
\* a new state); and the state at hand never holds more than one URL that
\* the variable does not hold.
C29_ProcessedUrlIsNotParsedAgain ==
    sra_flow.pc # "idle" =>
        /\ \A i, j \in DOMAIN sra_flow.log :
              (/\ i < j
               /\ sra_flow.log[i] = sra_flow.log[j]
               /\ sra_flow.log[i].e = "parse")
                  => LET between == {sra_flow.log[k].e : k \in (i + 1)..(j - 1)}
                     IN  \/ "reset" \in between
                         \/ "fresh" \in between
                         \/ /\ "load" \in between
                            /\ sra_flow.log[i + 1].e # "save"
        /\ sra_flow.pc \in {"loop", "save"} =>
              Cardinality(Range(sra_flow.state.processed_url_hashes) \ SavedHashes) <= 1

\* A second run has loaded the state the first run saved, has left out the
\* URL the first run parsed although the mirror still lists it, and has
\* parsed the other URL.
C29_Witness ==
    /\ sra_flow.pc = "done"
    /\ sra_flow.runs = 2
    /\ Len(sra_flow.all_urls) = 2
    /\ sra_flow.all_urls[1] # sra_flow.all_urls[2]
    /\ Len(sra_flow.state.processed_url_hashes) = 2
    /\ Cardinality({i \in DOMAIN sra_flow.log : sra_flow.log[i].e = "parse"}) = 2
    /\ Cardinality({i \in DOMAIN sra_flow.log : sra_flow.log[i].e = "load"}) = 1
    /\ Cardinality({i \in DOMAIN sra_flow.log : sra_flow.log[i].e \in {"reset", "fresh"}}) = 1


(***************************************************************************)
(* SRA extraction (extract_sra) and the completion markers of the output   *)
(* directory.                                                              *)
(***************************************************************************)
MaxChunks == 2
MaxExtractRuns == 2

\* _generate_file_prefix(url): the directory without NCBI_SRA_Mirroring_ and
\* the file without meta_ and _set.xml.gz
generate_file_prefix(url) ==
    <<IF url[1] = "NCBI_SRA_Mirroring_1_Full" THEN "1_Full" ELSE "2",
      IF url[2] = "meta_run_set" THEN "run" ELSE url[2]>>

\* A file of the output directory: chunk n of a prefix (prefix-000n.parquet),
\* or the marker of a prefix (prefix.completed) with the file count of its
\* metadata.
OutputFile(prefix, kind, n) == [prefix |-> prefix, kind |-> kind, n |-> n]

\* _is_prefix_completed(output_dir, prefix)
is_prefix_completed(output_dir, prefix) ==
    \E f \in output_dir : f.prefix = prefix /\ f.kind = "completed"

\* _mark_prefix_completed(output_dir, prefix, metadata): the marker is
\* written, or the failure to write it is logged
mark_prefix_completed(output_dir, prefix, file_count, write_ok) ==
    IF write_ok
    THEN {f \in output_dir : ~(f.prefix = prefix /\ f.kind = "completed")}
             \cup {OutputFile(prefix, "completed", file_count)}
    ELSE output_dir

\* An except clause that marks the prefix as completed all the same.
failure_marks_prefix(output_dir, prefix) ==
    output_dir \cup {OutputFile(prefix, "completed", 0)}

\* _download_and_process_sra_file, lines 521-524: the error is logged and
\* raised again, no marker is created
failure(output_dir, prefix) == output_dir

\* What extract_sra has done with a URL: the run, the prefix and the outcome.
Outcome(run_number, prefix, outcome) ==
    [run |-> run_number, prefix |-> prefix, outcome |-> outcome]

ExtractInit ==
    /\ RunInit
    /\ in_models = <<>>
    /\ in_order = <<>>
    /\ sched = [call |-> "none"]
    /\ DeployIdle
    /\ norm = NoCall
    /\ sra_flow = NoCall
    /\ extraction = [pc |-> "ready", output_dir |-> {}, urls |-> <<>>, i |-> 1,
                     chunks |-> 0, written |-> 0, runs |-> 0, history |-> <<>>]

\* extract_sra, lines 639-657: the URLs of the mirror; the files and the
\* markers of prefixes that are not current are removed.
ExtractStart ==
    /\ extraction.pc \in {"ready", "done", "killed"}
    /\ extraction.runs < MaxExtractRuns
    /\ \E S \in SUBSET Urls : \E urls \in Perms(S) :
          LET current_prefixes == {generate_file_prefix(urls[k]) : k \in 1..Len(urls)}
          IN  extraction' = [extraction EXCEPT
                  !.pc = IF urls = <<>> THEN "done" ELSE "url",
                  !.output_dir = IF urls = <<>> THEN @
                                 ELSE {f \in @ : f.prefix \in current_prefixes},
                  !.urls = urls,
                  !.i = 1,
                  !.runs = @ + 1]
    /\ UNCHANGED <<sched_vars, run_vars, cli, upload, deploy_vars, norm, sra_flow>>

\* _download_and_process_sra_file, lines 472-490: a URL whose prefix has a
\* marker is skipped; the others are downloaded.
ExtractBegin ==
    /\ extraction.pc = "url"
    /\ extraction.i <= Len(extraction.urls)
    /\ LET prefix == generate_file_prefix(extraction.urls[extraction.i])
       IN  IF is_prefix_completed(extraction.output_dir, prefix)
           THEN extraction' = [extraction EXCEPT
                   !.i = @ + 1,
                   !.history = Append(@, Outcome(extraction.runs, prefix, "skipped"))]
           ELSE extraction' = [extraction EXCEPT !.pc = "download"]
    /\ UNCHANGED <<sched_vars, run_vars, cli, upload, deploy_vars, norm, sra_flow>>

\* _download_and_process_sra_file, lines 497-503: the download, which may
\* raise; the file holds the records of so many chunks.
ExtractDownload ==
    /\ extraction.pc = "download"
    /\ LET prefix == generate_file_prefix(extraction.urls[extraction.i])
       IN  \E download_ok \in BOOLEAN, chunks \in 0..MaxChunks :
              IF download_ok
              THEN extraction' = [extraction EXCEPT
                      !.pc = IF chunks = 0 THEN "mark" ELSE "write",
                      !.chunks = chunks,
                      !.written = 0]
              ELSE extraction' = [extraction EXCEPT
                      !.pc = "url",
                      !.output_dir = failure(@, prefix),
                      !.i = @ + 1,
                      !.history = Append(@, Outcome(extraction.runs, prefix, "failed"))]
    /\ UNCHANGED <<sched_vars, run_vars, cli, upload, deploy_vars, norm, sra_flow>>

\* _write_parquet_file, write_chunk: the next chunk is written, or the
\* writing raises, which ends the processing of the URL; extract_sra logs the
\* error and goes on with the next URL.
ExtractWriteChunk ==
    /\ extraction.pc = "write"
    /\ LET prefix == generate_file_prefix(extraction.urls[extraction.i])
       IN  \E write_ok \in BOOLEAN :
              IF write_ok
              THEN extraction' = [extraction EXCEPT
                      !.pc = IF extraction.written + 1 = extraction.chunks
                             THEN "mark" ELSE "write",
                      !.written = @ + 1,
                      !.output_dir = @ \cup {OutputFile(prefix, "parquet",
                                                        extraction.written + 1)}]
              ELSE extraction' = [extraction EXCEPT
                      !.pc = "url",
                      !.output_dir = failure(@, prefix),
                      !.i = @ + 1,
                      !.history = Append(@, Outcome(extraction.runs, prefix, "failed"))]
    /\ UNCHANGED <<sched_vars, run_vars, cli, upload, deploy_vars, norm, sra_flow>>

\* _download_and_process_sra_file, lines 505-516: the marker, after
\* _write_parquet_file has returned
ExtractMark ==
    /\ extraction.pc = "mark"
    /\ LET prefix == generate_file_prefix(extraction.urls[extraction.i])
       IN  \E write_ok \in BOOLEAN :
              extraction' = [extraction EXCEPT
                  !.pc = "url",
                  !.output_dir = mark_prefix_completed(@, prefix, extraction.chunks,
                                                       write_ok),
                  !.i = @ + 1,
                  !.history = Append(@, Outcome(extraction.runs, prefix,
                                                IF write_ok THEN "completed"
                                                ELSE "unmarked"))]
    /\ UNCHANGED <<sched_vars, run_vars, cli, upload, deploy_vars, norm, sra_flow>>

\* extract_sra, lines 690-693: the loop is over
ExtractReturn ==
    /\ extraction.pc = "url"
    /\ extraction.i > Len(extraction.urls)
    /\ extraction' = [extraction EXCEPT !.pc = "done"]
    /\ UNCHANGED <<sched_vars, run_vars, cli, upload, deploy_vars, norm, sra_flow>>

\* The process is stopped from outside (no Exception: nothing catches it).
ExtractInterrupt ==
    /\ extraction.pc \in {"download", "write", "mark"}
    /\ extraction' = [extraction EXCEPT !.pc = "killed"]
    /\ UNCHANGED <<sched_vars, run_vars, cli, upload, deploy_vars, norm, sra_flow>>

SpecExtract ==
    ExtractInit /\ [][\/ ExtractStart \/ ExtractBegin \/ ExtractDownload
                      \/ ExtractWriteChunk \/ ExtractMark \/ ExtractReturn
                      \/ ExtractInterrupt]_vars

(***************************************************************************)
(* Properties of the extraction.                                           *)
(***************************************************************************)
\* What the current run has done with the URLs it has gone through.
OutcomesOfRun ==
    SelectSeq(extraction.history, LAMBDA o : o.run = extraction.runs)

\* C30: a marker is in the output directory only with every chunk of its
\* prefix; the prefix of a URL that is being processed, or whose processing
\* has failed in the current run, has no marker; a URL is skipped only when
\* its prefix has a marker, so a URL that failed is processed again by the
\* next run; and a run that returns has gone through every URL, in their
\* order, whatever failed.
C30_MarkerOnlyAfterEveryChunk ==
    extraction.pc # "idle" =>
        /\ \A f \in extraction.output_dir :
              f.kind = "completed" =>
                  \A n \in 1..f.n : OutputFile(f.prefix, "parquet", n) \in extraction.output_dir
        /\ extraction.pc \in {"download", "write", "mark"} =>
              ~is_prefix_completed(extraction.output_dir,
                                   generate_file_prefix(extraction.urls[extraction.i]))
        /\ extraction.pc \in {"url", "download", "write", "mark", "done"} =>
              /\ Len(OutcomesOfRun) = extraction.i - 1
              /\ \A k \in 1..Len(OutcomesOfRun) :
                    /\ OutcomesOfRun[k].prefix = generate_file_prefix(extraction.urls[k])
                    /\ OutcomesOfRun[k].outcome \in {"failed", "unmarked"} =>
                          ~is_prefix_completed(extraction.output_dir, OutcomesOfRun[k].prefix)
                    /\ OutcomesOfRun[k].outcome \in {"skipped", "completed"} =>
                          is_prefix_completed(extraction.output_dir, OutcomesOfRun[k].prefix)
        /\ (extraction.pc = "done" /\ extraction.runs > 0) =>
              Len(OutcomesOfRun) = Len(extraction.urls)

\* The first run failed on a URL, went on and completed the next URL; the second run skipped the completed URL and
\* processed the failed one again, to the end.
C30_Witness ==
    /\ extraction.pc = "done"
    /\ extraction.runs = 2
    /\ Len(extraction.history) = 4
    /\ extraction.history[1].outcome = "failed"
    /\ extraction.history[2].outcome = "completed"
    /\ extraction.history[2].prefix # extraction.history[1].prefix
    /\ \E k \in 3..4 : /\ extraction.history[k].outcome = "completed"
                       /\ extraction.history[k].prefix = extraction.history[1].prefix
    /\ \E k \in 3..4 : /\ extraction.history[k].outcome = "skipped"
                       /\ extraction.history[k].prefix = extraction.history[2].prefix
    /\ \A f \in extraction.output_dir : f.kind = "completed" => f.n = MaxChunks


====
